---- MODULE Spec2Model ----
(***************************************************************************)
(* Model of the presentation utilities of the horary chart frontend:       *)
(*   parseReasoningEntry  (utils/cleanMoonText.js, lines 18-31)            *)
(*   cleanMoonText        (utils/cleanMoonText.js, lines 2-16)             *)
(*   buildChartPayload    (lines 3-134: the asking time, the time zone,    *)
(*                         getLocationData of lines 10-91, the payload and *)
(*                         its verdict)                                    *)
(* JavaScript strings are sequences of one-character strings; JavaScript   *)
(* values are tagged records; a decimal number is an exact fraction        *)
(* num/den with den a power of ten.                                        *)
(***************************************************************************)
EXTENDS Integers, Sequences, FiniteSets, TLC

VARIABLES reasoning, parsed, chartIn, resolved, payload, rationale, cleaned, prev, passes

vars == <<reasoning, parsed, chartIn, resolved, payload, rationale, cleaned, prev, passes>>

(***************************************************************************)
(* JavaScript values                                                       *)
(***************************************************************************)
Undefined == [t |-> "undefined"]

Null == [t |-> "null"]

NaN == [t |-> "NaN"]

Str(s) == [t |-> "string", s |-> s]

Num(n, d) == [t |-> "number", num |-> n, den |-> d]

Obj(f) == [t |-> "object", f |-> f]

Arr(a) == [t |-> "array", a |-> a]

Bool(b) == [t |-> "boolean", b |-> b]

\* A TypeError escaping from the evaluation of an expression.
Thrown == [t |-> "throw", error |-> "TypeError"]

\* The marker of a function that has not been called yet.
NotCalled == [t |-> "notcalled"]

Zero == Num(0, 1)

typeof(v) ==
  CASE v.t = "string" -> "string"
    [] v.t = "number" -> "number"
    [] v.t = "NaN" -> "number"
    [] v.t = "boolean" -> "boolean"
    [] v.t = "undefined" -> "undefined"
    [] OTHER -> "object"

\* ToBoolean: undefined, null, NaN, 0, "" and false are falsy.
Truthy(v) ==
  CASE v.t = "undefined" -> FALSE
    [] v.t = "null" -> FALSE
    [] v.t = "NaN" -> FALSE
    [] v.t = "number" -> v.num # 0
    [] v.t = "string" -> v.s # <<>>
    [] v.t = "boolean" -> v.b
    [] OTHER -> TRUE

\* a || b
Or(a, b) == IF a = Thrown THEN Thrown ELSE IF Truthy(a) THEN a ELSE b

(***************************************************************************)
(* Characters and string primitives                                        *)
(***************************************************************************)
Digits == {"0", "1", "2", "3", "4", "5", "6", "7", "8", "9"}

IsDigit(c) == c \in Digits

\* The WhiteSpace and LineTerminator code points of ECMAScript. A character
\* that the module's character set cannot write is named by its code point,
\* "U+00A0", and is one element of a string like any other character.
WhiteSpace ==
  { " ", "\t", "\n", "\r", "\f", "U+000B", "U+00A0", "U+1680",
    "U+2000", "U+2001", "U+2002", "U+2003", "U+2004", "U+2005", "U+2006",
    "U+2007", "U+2008", "U+2009", "U+200A", "U+2028", "U+2029", "U+202F",
    "U+205F", "U+3000", "U+FEFF" }

\* \s of a regular expression, and the characters String.prototype.trim removes.
IsSpace(c) == c \in WhiteSpace

UpperCase == <<"A", "B", "C", "D", "E", "F", "G", "H", "I", "J", "K", "L", "M",
               "N", "O", "P", "Q", "R", "S", "T", "U", "V", "W", "X", "Y", "Z">>

LowerCase == <<"a", "b", "c", "d", "e", "f", "g", "h", "i", "j", "k", "l", "m",
               "n", "o", "p", "q", "r", "s", "t", "u", "v", "w", "x", "y", "z">>

\* The canonical form two characters share under the i flag.
Fold(c) ==
  IF \E k \in 1..26 : UpperCase[k] = c
  THEN LowerCase[CHOOSE k \in 1..26 : UpperCase[k] = c]
  ELSE c

DigitVal(c) ==
  CASE c = "0" -> 0 [] c = "1" -> 1 [] c = "2" -> 2 [] c = "3" -> 3
    [] c = "4" -> 4 [] c = "5" -> 5 [] c = "6" -> 6 [] c = "7" -> 7
    [] c = "8" -> 8 [] c = "9" -> 9

\* text.slice(from, to) with 0-based from (inclusive) and to (exclusive).
slice(s, from, to) == SubSeq(s, from + 1, to)

\* The character classes of the regular expressions: \d, \s and [^)].
InClass(c, cls) ==
  CASE cls = "digit" -> IsDigit(c)
    [] cls = "space" -> IsSpace(c)
    [] cls = "notclose" -> c # ")"

\* The 0-based index of the first character at or after i (0-based) that is
\* not in the class, or Len(s): where a greedy class* started at i stops.
RunEnd(s, i, cls) ==
  LET stops == {j \in i..Len(s) : j = Len(s) \/ ~InClass(s[j + 1], cls)}
  IN CHOOSE j \in stops : \A k \in stops : j <= k

\* String.prototype.trim
trim(s) ==
  LET keep == {k \in 1..Len(s) : ~IsSpace(s[k])}
  IN IF keep = {} THEN <<>>
     ELSE LET lo == CHOOSE k \in keep : \A m \in keep : k <= m
              hi == CHOOSE k \in keep : \A m \in keep : k >= m
          IN SubSeq(s, lo, hi)

(***************************************************************************)
(* Numbers                                                                 *)
(***************************************************************************)
RECURSIVE NatOf(_)
\* The value of a run of decimal digits.
NatOf(ds) ==
  IF ds = <<>> THEN 0
  ELSE 10 * NatOf(SubSeq(ds, 1, Len(ds) - 1)) + DigitVal(ds[Len(ds)])

RECURSIVE Pow10(_)
Pow10(k) == IF k = 0 THEN 1 ELSE 10 * Pow10(k - 1)

RECURSIVE Dec(_, _)
\* The number n/d (d a power of ten) in lowest decimal terms, so that 5.50,
\* 5.5 and +5.5 are one value, and 0, -0 and 0.0 are one value.
Dec(n, d) ==
  IF n = 0 THEN Num(0, 1)
  ELSE IF d > 1 /\ n % 10 = 0 THEN Dec(n \div 10, d \div 10)
  ELSE Num(n, d)

\* parseFloat: leading white space, an optional sign, digits, an optional
\* fraction; NaN when no digit follows. (No exponent or Infinity: neither
\* regular expression of parseReasoningEntry captures a letter.)
parseFloat(s) ==
  LET i0 == RunEnd(s, 0, "space")
      hasSign == i0 < Len(s) /\ s[i0 + 1] \in {"-", "+"}
      neg == hasSign /\ s[i0 + 1] = "-"
      i1 == IF hasSign THEN i0 + 1 ELSE i0
      i2 == RunEnd(s, i1, "digit")
      hasDot == i2 < Len(s) /\ s[i2 + 1] = "."
      i3 == IF hasDot THEN RunEnd(s, i2 + 1, "digit") ELSE i2
      int == slice(s, i1, i2)
      frac == IF hasDot THEN slice(s, i2 + 1, i3) ELSE <<>>
      mag == NatOf(int \o frac)
  IN IF int = <<>> /\ frac = <<>> THEN NaN
     ELSE Dec(IF neg THEN 0 - mag ELSE mag, Pow10(Len(frac)))

(***************************************************************************)
(* parseReasoningEntry                                                     *)
(***************************************************************************)
\* [-+]?\d+(?:\.\d+)? started at 0-based index i: the index where the token
\* ends, or -1 when it does not match there. Each quantifier is followed by
\* something its own characters cannot match, so the greedy choice is the
\* only one that can succeed.
NumberEnd(s, i) ==
  LET i1 == IF i < Len(s) /\ s[i + 1] \in {"-", "+"} THEN i + 1 ELSE i
      d == RunEnd(s, i1, "digit")
      f == IF d < Len(s) /\ s[d + 1] = "." THEN RunEnd(s, d + 1, "digit") ELSE d
  IN IF i1 > Len(s) \/ d = i1 THEN -1
     ELSE IF f > d + 1 THEN f
     ELSE d

\* \s*%? started at i: where it ends.
PercentEnd(s, i) ==
  LET k == RunEnd(s, i, "space")
  IN IF k < Len(s) /\ s[k + 1] = "%" THEN k + 1 ELSE k

\* \s*$ started at i.
AtEnd(s, i) == RunEnd(s, i, "space") = Len(s)

\* /\(([-+]?\d+(?:\.\d+)?)\s*%?\)$/: the final \s* left out of the expression.
ParenAtNoTrailingSpace(s, i) ==
  /\ i < Len(s)
  /\ s[i + 1] = "("
  /\ LET e == NumberEnd(s, i + 1)
     IN /\ e >= 0
        /\ LET k == PercentEnd(s, e)
           IN /\ k < Len(s)
              /\ s[k + 1] = ")"
              /\ k + 1 = Len(s)

\* /\(([-+]?\d+(?:\.\d+)?)\s*%?\)\s*$/ matched with its "(" at index i.
ParenAt(s, i) ==
  /\ i < Len(s)
  /\ s[i + 1] = "("
  /\ LET e == NumberEnd(s, i + 1)
     IN /\ e >= 0
        /\ LET k == PercentEnd(s, e)
           IN /\ k < Len(s)
              /\ s[k + 1] = ")"
              /\ AtEnd(s, k + 1)

\* /(\d+(?:\.\d+)?)\s*%?\s*$/: the sign class left out of the expression.
SignedAtNoSign(s, i) ==
  /\ i < Len(s)
  /\ IsDigit(s[i + 1])
  /\ LET e == NumberEnd(s, i)
     IN e >= 0 /\ AtEnd(s, PercentEnd(s, e))

\* /([-+]?\d+(?:\.\d+)?)\s*%?\s*$/ matched from index i.
SignedAt(s, i) ==
  /\ i < Len(s)
  /\ LET e == NumberEnd(s, i)
     IN e >= 0 /\ AtEnd(s, PercentEnd(s, e))

\* String.prototype.match without the g flag: the leftmost match, with its
\* index and its first group, or null; a TypeError on a value with no match
\* method.
Match(index, group) == [t |-> "match", index |-> index, group |-> group]

parenMatch(text) ==
  IF text.t # "string" THEN Thrown
  ELSE LET s == text.s
           hits == {i \in 0..(Len(s) - 1) : ParenAt(s, i)}
       IN IF hits = {} THEN Null
          ELSE LET i == CHOOSE h \in hits : \A g \in hits : h <= g
               IN Match(i, slice(s, i + 1, NumberEnd(s, i + 1)))

signedMatch(text) ==
  IF text.t # "string" THEN Thrown
  ELSE LET s == text.s
           hits == {i \in 0..(Len(s) - 1) : SignedAt(s, i)}
       IN IF hits = {} THEN Null
          ELSE LET i == CHOOSE h \in hits : \A g \in hits : h <= g
               IN Match(i, slice(s, i, NumberEnd(s, i)))

\* The object a call returns.
Entry(rule, weight) == [t |-> "entry", rule |-> rule, weight |-> weight]

\* typeof text !== 'string', with the guard weakened to a null check.
notStringNullOnly(text) == text.t \in {"undefined", "null"}

notString(text) == typeof(text) # "string"

parseReasoningEntry(text) ==
  IF notString(text) THEN Entry(Str(<<>>), Zero)
  ELSE LET pm == parenMatch(text)
       IN IF pm = Thrown THEN Thrown
          ELSE IF pm # Null
          THEN Entry(Str(trim(slice(text.s, 0, pm.index))), Or(parseFloat(pm.group), Zero))
          ELSE LET sm == signedMatch(text)
               IN IF sm = Thrown THEN Thrown
                  ELSE IF sm # Null
                  THEN Entry(Str(trim(slice(text.s, 0, sm.index))),
                             Or(parseFloat(sm.group), Zero))
                  ELSE Entry(Str(trim(text.s)), Zero)

(***************************************************************************)
(* Inputs of parseReasoningEntry                                           *)
(***************************************************************************)
\* The longest suffix enumerated exhaustively.
MaxSuffixLen == 3

SuffixChars == {"a", " ", "U+00A0", "(", ")", "-", "+", "5", ".", "%"}

SeqsUpTo(S, n) == UNION {[1..k -> S] : k \in 0..n}

\* The strings of the repository's tests (tests/parseReasoning.test.mjs).
LossOfPower == <<"L", "o", "s", "s", " ", "o", "f", " ", "p", "o", "w", "e", "r", " ", "-", "5", ".", "5", "%">>
GoodFortune == <<"G", "o", "o", "d", " ", "f", "o", "r", "t", "u", "n", "e", " ", "(", "1", "2", ".", "7", "5", ")">>
MixedSignals == <<"M", "i", "x", "e", "d", " ", "s", "i", "g", "n", "a", "l", "s", " ", "(", "+", "3", ".", "5", ")", " ", "(", "-", "4", ".", "2", "5", ")">>
RulerOf7 == <<"R", "u", "l", "e", "r", " ", "o", "f", " ", "7", " ", "h", "o", "u", "s", "e", "s">>

\* What precedes an enumerated suffix: nothing, an earlier parenthetical
\* group, an embedded numeral, an unfinished group, an unfinished number.
Prefixes ==
  { <<>>,
    <<"M", " ", "(", "+", "3", ".", "5", ")", " ">>,
    <<"o", "f", " ", "7", " ">>,
    <<"a", " ", "(", "-", "5">>,
    <<"a", " ", "-", "5">>,
    <<"a", " ", "(", "5", ".">>,
    <<"a", " ", "5", ".">> }

NonStrings ==
  {Undefined, Null, Num(7, 1), Zero, NaN, Bool(TRUE), Obj(<<>>), Arr(<<>>)}

ParseInputs ==
  NonStrings
    \cup {Str(e) : e \in {LossOfPower, GoodFortune, MixedSignals, RulerOf7}}
    \cup {Str(p \o x) : p \in Prefixes, x \in SeqsUpTo(SuffixChars, MaxSuffixLen)}

\* The variables of the other two components, at rest.
ParseIdle == /\ reasoning = Undefined /\ parsed = NotCalled

LocIdle == /\ chartIn = [t |-> "object"] /\ resolved = NotCalled /\ payload = NotCalled

CleanIdle == /\ rationale = Undefined /\ cleaned = NotCalled
             /\ prev = NotCalled /\ passes = 0

InitParse ==
  /\ reasoning \in ParseInputs
  /\ parsed = NotCalled
  /\ LocIdle
  /\ CleanIdle

\* One call parseReasoningEntry(reasoning).
Parse ==
  /\ parsed = NotCalled
  /\ parsed' = parseReasoningEntry(reasoning)
  /\ UNCHANGED <<reasoning, chartIn, resolved, payload, rationale, cleaned, prev, passes>>

NextParse == Parse

SpecParse == InitParse /\ [][NextParse]_vars

(***************************************************************************)
(* The grammar of a trailing weight, stated on the string itself           *)
(***************************************************************************)
\* digits, or digits "." digits
IsUnsignedDecimal(u) ==
  /\ Len(u) >= 1
  /\ \/ \A k \in 1..Len(u) : IsDigit(u[k])
     \/ \E d \in 2..(Len(u) - 1) :
          /\ u[d] = "."
          /\ \A k \in (1..Len(u)) \ {d} : IsDigit(u[k])

IsSignedDecimal(u) ==
  \/ IsUnsignedDecimal(u)
  \/ Len(u) >= 2 /\ u[1] \in {"-", "+"} /\ IsUnsignedDecimal(Tail(u))

\* white space, an optional "%", white space
IsBareTail(u) ==
  /\ \A k \in 1..Len(u) : IsSpace(u[k]) \/ u[k] = "%"
  /\ Cardinality({k \in 1..Len(u) : u[k] = "%"}) <= 1

\* white space, an optional "%", ")", white space
IsParenTail(u) ==
  \E q \in 1..Len(u) :
    /\ u[q] = ")"
    /\ \A k \in (q + 1)..Len(u) : IsSpace(u[k])
    /\ \A k \in 1..(q - 1) : IsSpace(u[k]) \/ (k = q - 1 /\ u[k] = "%")

\* s ends with a parenthesized number: "(" at position i (from 1), the number
\* up to position j.
ParenSuffix(s, i, j) ==
  /\ s[i] = "("
  /\ IsSignedDecimal(SubSeq(s, i + 1, j))
  /\ IsParenTail(SubSeq(s, j + 1, Len(s)))

\* s ends with a bare number that starts at position i and ends at j.
BareSuffix(s, i, j) ==
  /\ IsSignedDecimal(SubSeq(s, i, j))
  /\ IsBareTail(SubSeq(s, j + 1, Len(s)))

\* The number a decimal token writes.
TokenValue(u) ==
  LET neg == u[1] = "-"
      body == IF u[1] \in {"-", "+"} THEN Tail(u) ELSE u
      dots == {d \in 1..Len(body) : body[d] = "."}
      d == IF dots = {} THEN Len(body) + 1 ELSE CHOOSE x \in dots : TRUE
      int == SubSeq(body, 1, d - 1)
      frac == SubSeq(body, d + 1, Len(body))
      mag == NatOf(int) * Pow10(Len(frac)) + NatOf(frac)
  IN Dec(IF neg THEN 0 - mag ELSE mag, Pow10(Len(frac)))

Parsed == parsed # NotCalled

\* C1: a string that ends, up to trailing white space, with a parenthesized
\* signed decimal number (optionally followed by "%") parses to the value of
\* that last group as weight and to the trimmed text before the group's "("
\* as rule; an earlier parenthesized number stays in rule. The two strings of
\* the tests give ("Good fortune", 12.75) and ("Mixed signals (+3.5)", -4.25).
C1_ParenSuffix ==
  (Parsed /\ reasoning.t = "string") =>
    /\ \A i \in 1..Len(reasoning.s) : \A j \in i..Len(reasoning.s) :
         ParenSuffix(reasoning.s, i, j) =>
           parsed = Entry(Str(trim(SubSeq(reasoning.s, 1, i - 1))),
                          TokenValue(SubSeq(reasoning.s, i + 1, j)))
    /\ reasoning.s = GoodFortune =>
         parsed = Entry(Str(<<"G", "o", "o", "d", " ", "f", "o", "r", "t", "u", "n", "e">>), Num(1275, 100))
    /\ reasoning.s = MixedSignals =>
         parsed = Entry(Str(<<"M", "i", "x", "e", "d", " ", "s", "i", "g", "n", "a", "l", "s", " ", "(", "+", "3", ".", "5", ")">>), Num(-425, 100))

\* C1 witness: the string with two groups has been parsed: the last group is
\* the weight and the earlier one is still in the rule.
C1_Witness ==
  /\ reasoning = Str(MixedSignals)
  /\ Parsed
  /\ parsed.weight = Num(-425, 100)
  /\ Len(parsed.rule.s) = 20

HasParenSuffix(s) ==
  \E i \in 1..Len(s) : \E j \in i..Len(s) : ParenSuffix(s, i, j)

BareStarts(s) ==
  {i \in 1..Len(s) : \E j \in i..Len(s) : BareSuffix(s, i, j)}

\* C2: for a string without the parenthesized suffix, a number is the weight
\* exactly when the string ends with a signed decimal number followed only by
\* white space, an optional "%" and white space: then weight is the value of
\* the longest such token and rule the trimmed text before it; otherwise rule
\* is the trimmed input and weight 0. "Loss of power -5.5%" gives
\* ("Loss of power", -5.5), "Ruler of 7 houses" gives itself and 0.
C2_BareSuffix ==
  (Parsed /\ reasoning.t = "string" /\ ~HasParenSuffix(reasoning.s)) =>
    LET s == reasoning.s
        starts == BareStarts(s)
    IN /\ starts # {} =>
            LET i == CHOOSE x \in starts : \A y \in starts : x <= y
                j == CHOOSE y \in i..Len(s) : BareSuffix(s, i, y)
            IN parsed = Entry(Str(trim(SubSeq(s, 1, i - 1))),
                              TokenValue(SubSeq(s, i, j)))
       /\ starts = {} => parsed = Entry(Str(trim(s)), Zero)
       /\ s = LossOfPower => parsed = Entry(Str(<<"L", "o", "s", "s", " ", "o", "f", " ", "p", "o", "w", "e", "r">>), Num(-55, 10))
       /\ s = RulerOf7 => parsed = Entry(Str(RulerOf7), Zero)

\* C2 witness: a trailing signed percentage has been taken as the weight.
C2_Witness ==
  /\ reasoning = Str(LossOfPower)
  /\ Parsed
  /\ parsed.weight = Num(-55, 10)

\* C3: every call returns an entry and none raises: { rule: '', weight: 0 }
\* for an input that is not a string, a string rule and a numeric weight for
\* a string.
C3_Total ==
  Parsed =>
    /\ parsed.t = "entry"
    /\ reasoning.t # "string" => parsed = Entry(Str(<<>>), Zero)
    /\ reasoning.t = "string" =>
         /\ parsed.rule.t = "string"
         /\ parsed.weight.t = "number"

\* C3 witness: a number has been given and the empty entry came back.
C3_Witness ==
  /\ reasoning = Num(7, 1)
  /\ parsed = Entry(Str(<<>>), Zero)

(***************************************************************************)
(* getLocationData: the expressions it is written with                     *)
(***************************************************************************)
NoFields == [k \in {} |-> Null]

HasField(v, k) == v.t = "object" /\ k \in DOMAIN v.f

\* v.k : a TypeError on undefined and null, undefined for a missing property.
Get(v, k) ==
  IF v = Thrown \/ v.t \in {"undefined", "null"} THEN Thrown
  ELSE IF HasField(v, k) THEN v.f[k]
  ELSE Undefined

\* v?.k
OptGet(v, k) ==
  IF v # Thrown /\ v.t \in {"undefined", "null"} THEN Undefined ELSE Get(v, k)

\* a !== 'literal'
NotEq(a, lit) == a # Str(lit)

RECURSIVE SplitSeq(_, _)
\* The pieces of s between the occurrences of the character sep.
SplitSeq(s, sep) ==
  LET at == {k \in 1..Len(s) : s[k] = sep}
  IN IF at = {} THEN <<Str(s)>>
     ELSE LET k == CHOOSE x \in at : \A y \in at : x <= y
          IN <<Str(SubSeq(s, 1, k - 1))>> \o SplitSeq(SubSeq(s, k + 1, Len(s)), sep)

\* v.split(sep): a TypeError when v has no split method.
Split(v, sep) ==
  IF v = Thrown \/ v.t # "string" THEN Thrown ELSE Arr(SplitSeq(v.s, sep))

\* parts.map(s => s.trim())
MapTrim(parts) ==
  IF parts = Thrown THEN Thrown
  ELSE Arr([i \in DOMAIN parts.a |-> Str(trim(parts.a[i].s))])

\* parts[i], i from 0
At(parts, i) ==
  IF parts = Thrown THEN Thrown
  ELSE IF i >= 0 /\ i < Len(parts.a) THEN parts.a[i + 1]
  ELSE Undefined

\* tz.includes('/'): of a string or of an array; a TypeError on anything else.
Includes(v, c) ==
  CASE v.t = "string" -> Bool(\E k \in 1..Len(v.s) : v.s[k] = c)
    [] v.t = "array" -> Bool(\E k \in 1..Len(v.a) : v.a[k] = Str(<<c>>))
    [] OTHER -> Thrown

\* str.replace(/_/g, ' ')
ReplaceUnderscores(v) ==
  IF v = Thrown \/ v.t # "string" THEN Thrown
  ELSE Str([k \in 1..Len(v.s) |-> IF v.s[k] = "_" THEN " " ELSE v.s[k]])

Unknown == <<"U", "n", "k", "n", "o", "w", "n">>

UnknownLocation == <<"U", "n", "k", "n", "o", "w", "n", " ", "l", "o", "c", "a", "t", "i", "o", "n">>

UTC == <<"U", "T", "C">>

\* The object literal a branch returns; a TypeError raised while one of its
\* properties is evaluated leaves the function instead.
Location(city, country, lat, lon) ==
  IF city = Thrown \/ country = Thrown \/ lat = Thrown \/ lon = Thrown THEN Thrown
  ELSE [t |-> "location", city |-> city, country |-> country, lat |-> lat, lon |-> lon]

\* chart.chart_data?.location
CdLocation(chart) == OptGet(Get(chart, "chart_data"), "location")

\* chart.chart_data?.timezone_info
TimezoneInfo(chart) == OptGet(Get(chart, "chart_data"), "timezone_info")

\* chart.chart_data?.timezone_info?.coordinates?.latitude (.longitude)
Coordinate(chart, k) == OptGet(OptGet(TimezoneInfo(chart), "coordinates"), k)

\* const parts = locationStr.split(',').map(s => s.trim()) and the object
\* built from it.
FromName(locationStr, lat, lon) ==
  LET parts == MapTrim(Split(locationStr, ","))
  IN Location(Or(At(parts, 0), locationStr), Or(At(parts, 1), Str(Unknown)), lat, lon)

\* { city, country, latitude || lat || 0, longitude || lon || 0 } of an object.
FromObject(loc, city) ==
  Location(city,
           Or(Get(loc, "country"), Str(Unknown)),
           Or(Or(Get(loc, "latitude"), Get(loc, "lat")), Zero),
           Or(Or(Get(loc, "longitude"), Get(loc, "lon")), Zero))

(***************************************************************************)
(* getLocationData: the guards and the returns, in the order of the source *)
(***************************************************************************)
\* chart.chart_data?.location?.city && ... !== 'Unknown'
Guard1(chart) ==
  LET city == OptGet(CdLocation(chart), "city")
  IN Truthy(city) /\ NotEq(city, Unknown)

Return1(chart) ==
  LET loc == Get(Get(chart, "chart_data"), "location")
  IN FromObject(loc, Get(loc, "city"))

\* chart.chart_data?.timezone_info?.location && typeof ... === 'object'
Guard2(chart) ==
  LET loc == OptGet(TimezoneInfo(chart), "location")
  IN Truthy(loc) /\ typeof(loc) = "object"

Return2(chart) ==
  LET loc == Get(Get(Get(chart, "chart_data"), "timezone_info"), "location")
  IN FromObject(loc, Or(Or(Get(loc, "city"), Get(loc, "name")), Str(Unknown)))

\* name && name !== 'Unknown location' && name !== 'Unknown'
UsableName(name) ==
  Truthy(name) /\ NotEq(name, UnknownLocation) /\ NotEq(name, Unknown)

Guard3(chart) == UsableName(OptGet(TimezoneInfo(chart), "location_name"))

Return3(chart) ==
  FromName(Get(Get(Get(chart, "chart_data"), "timezone_info"), "location_name"),
           Or(Coordinate(chart, "latitude"), Zero),
           Or(Coordinate(chart, "longitude"), Zero))

Guard4(chart) == UsableName(Get(chart, "location_name"))

Return4(chart) ==
  FromName(Get(chart, "location_name"),
           Or(Coordinate(chart, "latitude"), Zero),
           Or(Coordinate(chart, "longitude"), Zero))

\* chart.location && typeof chart.location === 'object'
Guard5(chart) ==
  Truthy(Get(chart, "location")) /\ typeof(Get(chart, "location")) = "object"

Return5(chart) ==
  LET loc == Get(chart, "location")
  IN FromObject(loc, Or(Get(loc, "city"), Str(Unknown)))

\* typeof chart.location === 'string' && chart.location !== 'Unknown'
Guard6(chart) ==
  typeof(Get(chart, "location")) = "string" /\ NotEq(Get(chart, "location"), Unknown)

Return6(chart) == FromName(Get(chart, "location"), Zero, Zero)

\* const tz = chart.chart_data?.timezone_info?.timezone
Tz(chart) == OptGet(TimezoneInfo(chart), "timezone")

\* tz && tz !== 'UTC' && tz.includes('/'): true, false, or a TypeError from
\* the call of includes.
Guard7(chart) ==
  IF Truthy(Tz(chart)) /\ NotEq(Tz(chart), UTC) THEN Includes(Tz(chart), "/")
  ELSE Bool(FALSE)

\* parts[parts.length - 1].replace(/_/g, ' ')
LastSegment(parts) == ReplaceUnderscores(At(parts, Len(parts.a) - 1))

Return7(chart) ==
  LET parts == Split(Tz(chart), "/")
  IN IF parts = Thrown THEN Thrown
     ELSE Location(LastSegment(parts), Or(At(parts, 0), Str(Unknown)), Zero, Zero)

Return8 == Location(Str(Unknown), Str(Unknown), Zero, Zero)

\* The same function with the fourth and fifth branches in the other order.
getLocationDataObjectFirst(chart) ==
  IF Guard1(chart) THEN Return1(chart)
  ELSE IF Guard2(chart) THEN Return2(chart)
  ELSE IF Guard3(chart) THEN Return3(chart)
  ELSE IF Guard5(chart) THEN Return5(chart)
  ELSE IF Guard4(chart) THEN Return4(chart)
  ELSE IF Guard6(chart) THEN Return6(chart)
  ELSE IF Guard7(chart) = Thrown THEN Thrown
  ELSE IF Guard7(chart).b THEN Return7(chart)
  ELSE Return8

getLocationData(chart) ==
  IF Guard1(chart) THEN Return1(chart)
  ELSE IF Guard2(chart) THEN Return2(chart)
  ELSE IF Guard3(chart) THEN Return3(chart)
  ELSE IF Guard4(chart) THEN Return4(chart)
  ELSE IF Guard5(chart) THEN Return5(chart)
  ELSE IF Guard6(chart) THEN Return6(chart)
  ELSE IF Guard7(chart) = Thrown THEN Thrown
  ELSE IF Guard7(chart).b THEN Return7(chart)
  ELSE Return8

(***************************************************************************)
(* buildChartPayload, lines 4-8: the asking time and the time zone         *)
(***************************************************************************)
\* A RangeError escaping from the evaluation of an expression.
RangeError == [t |-> "throw", error |-> "RangeError"]

RECURSIVE DigitsOf(_)
\* The decimal digits of a natural number.
DigitsOf(n) ==
  IF n < 10 THEN <<CHOOSE c \in Digits : DigitVal(c) = n>>
  ELSE DigitsOf(n \div 10) \o <<CHOOSE c \in Digits : DigitVal(c) = n % 10>>

RECURSIVE FractionDigits(_, _)
\* The digits after the decimal point of r/d, 0 <= r < d, d a power of ten.
FractionDigits(r, d) ==
  IF r = 0 THEN <<>>
  ELSE LET t == d \div 10
       IN DigitsOf(r \div t) \o FractionDigits(r % t, t)

RECURSIVE TrailingZeros(_)
\* How many zeros a positive number ends with.
TrailingZeros(n) == IF n % 10 = 0 THEN 1 + TrailingZeros(n \div 10) ELSE 0

RECURSIVE Log10(_)
\* The exponent of a power of ten.
Log10(d) == IF d < 10 THEN 0 ELSE 1 + Log10(d \div 10)

\* Number::toString of a finite decimal below 10^21: the digits with the
\* decimal point among them, and from 10^-7 down the first digit, the
\* others after a point, and the exponent.
NumberToString(v) ==
  LET a == IF v.num < 0 THEN 0 - v.num ELSE v.num
      whole == DigitsOf(a \div v.den)
      frac == FractionDigits(a % v.den, v.den)
      sign == IF v.num < 0 THEN <<"-">> ELSE <<>>
      z == TrailingZeros(a)
      digits == DigitsOf(a \div Pow10(z))
      n == Len(digits) + z - Log10(v.den)
  IN IF a = 0 THEN <<"0">>
     ELSE IF n <= 0 - 6
     THEN sign \o <<digits[1]>>
            \o (IF Len(digits) > 1 THEN <<".">> \o Tail(digits) ELSE <<>>)
            \o <<"e", "-">> \o DigitsOf(1 - n)
     ELSE sign \o whole \o (IF frac = <<>> THEN <<>> ELSE <<".">> \o frac)

RECURSIVE toString(_)
RECURSIVE Join(_)
\* toString: an array is its elements joined by ",", null and undefined
\* elements as the empty string.
toString(v) ==
  CASE v.t = "string" -> v.s
    [] v.t = "number" -> NumberToString(v)
    [] v.t = "NaN" -> <<"N", "a", "N">>
    [] v.t = "boolean" -> IF v.b THEN <<"t", "r", "u", "e">> ELSE <<"f", "a", "l", "s", "e">>
    [] v.t = "undefined" -> <<"u", "n", "d", "e", "f", "i", "n", "e", "d">>
    [] v.t = "null" -> <<"n", "u", "l", "l">>
    [] v.t = "array" -> Join(v.a)
    [] OTHER -> <<"[", "o", "b", "j", "e", "c", "t", " ", "O", "b", "j", "e", "c", "t", "]">>

\* Array.prototype.join with the default separator.
Join(a) ==
  IF a = <<>> THEN <<>>
  ELSE LET last == a[Len(a)]
           text == IF last.t \in {"undefined", "null"} THEN <<>> ELSE toString(last)
       IN IF Len(a) = 1 THEN text
          ELSE Join(SubSeq(a, 1, Len(a) - 1)) \o <<",">> \o text

(***************************************************************************)
(* new Date(string): the date parser of the engine                         *)
(***************************************************************************)
\* The characters that are in no word: those below "A", and above it the
\* white space that is not a line terminator (U+2028 and U+2029 are
\* characters of a word).
BelowA ==
  Digits \cup (WhiteSpace \ {"U+2028", "U+2029"}) \cup
  { "!", "\"", "#", "$", "%", "&", "'", "(", ")", "*", "+", ",", "-", ".", "/",
    ":", ";", "<", "=", ">", "?", "@",
    "U+0000", "U+0001", "U+0002", "U+0003", "U+0004", "U+0005", "U+0006",
    "U+0007", "U+0008", "U+000E", "U+000F", "U+0010", "U+0011", "U+0012",
    "U+0013", "U+0014", "U+0015", "U+0016", "U+0017", "U+0018", "U+0019",
    "U+001A", "U+001B", "U+001C", "U+001D", "U+001E", "U+001F" }

\* A character of a word: "A" or above, and no white space character.
IsWordChar(c) == c \notin BelowA

\* Where the run of word characters (of digits) that starts at 1-based k ends.
RECURSIVE WordEnd(_, _)
WordEnd(s, k) == IF k <= Len(s) /\ IsWordChar(s[k]) THEN WordEnd(s, k + 1) ELSE k

RECURSIVE NumeralEnd(_, _)
NumeralEnd(s, k) == IF k <= Len(s) /\ IsDigit(s[k]) THEN NumeralEnd(s, k + 1) ELSE k

RECURSIVE ParenthesesEnd(_, _, _)
\* Where the parenthesized text that opens at k ends: past the matching ")",
\* or at the end of the string.
ParenthesesEnd(s, k, balance) ==
  IF k > Len(s) THEN k
  ELSE LET b == IF s[k] = ")" THEN balance - 1
                ELSE IF s[k] = "(" THEN balance + 1 ELSE balance
       IN IF b > 0 THEN ParenthesesEnd(s, k + 1, b) ELSE k + 1

\* The value of a numeral: leading zeros skipped, then the first nine digits.
ReadUnsignedNumeral(ds) ==
  LET nz == {k \in 1..Len(ds) : ds[k] # "0"}
      from == IF nz = {} THEN Len(ds) + 1 ELSE CHOOSE k \in nz : \A m \in nz : k <= m
      sig == SubSeq(ds, from, Len(ds))
  IN NatOf(SubSeq(sig, 1, IF Len(sig) > 9 THEN 9 ELSE Len(sig)))

MonthNames ==
  << <<"j", "a", "n">>, <<"f", "e", "b">>, <<"m", "a", "r">>, <<"a", "p", "r">>,
     <<"m", "a", "y">>, <<"j", "u", "n">>, <<"j", "u", "l">>, <<"a", "u", "g">>,
     <<"s", "e", "p">>, <<"o", "c", "t">>, <<"n", "o", "v">>, <<"d", "e", "c">> >>

\* The names of time zones the parser knows, with their offset in hours.
ZoneWords ==
  { <<<<"u", "t">>, 0>>, <<<<"u", "t", "c">>, 0>>, <<<<"z">>, 0>>, <<<<"g", "m", "t">>, 0>>,
    <<<<"c", "d", "t">>, -5>>, <<<<"c", "s", "t">>, -6>>, <<<<"e", "d", "t">>, -4>>,
    <<<<"e", "s", "t">>, -5>>, <<<<"m", "d", "t">>, -6>>, <<<<"m", "s", "t">>, -7>>,
    <<<<"p", "d", "t">>, -7>>, <<<<"p", "s", "t">>, -8>> }

\* The token of a word: a month name is known by its first three letters,
\* every other keyword by the whole word, letter case ignored.
Keyword(w) ==
  LET low == [k \in 1..Len(w) |-> Fold(w[k])]
      pre == SubSeq(low, 1, IF Len(low) > 3 THEN 3 ELSE Len(low))
  IN IF \E m \in 1..12 : MonthNames[m] = pre
     THEN [k |-> "month", n |-> CHOOSE m \in 1..12 : MonthNames[m] = pre, len |-> Len(w)]
     ELSE IF low = <<"a", "m">> THEN [k |-> "ampm", n |-> 0, len |-> Len(w)]
     ELSE IF low = <<"p", "m">> THEN [k |-> "ampm", n |-> 12, len |-> Len(w)]
     ELSE IF \E z \in ZoneWords : z[1] = low
     THEN [k |-> "zone", n |-> (CHOOSE z \in ZoneWords : z[1] = low)[2], len |-> Len(w)]
     ELSE IF low = <<"t">> THEN [k |-> "T", n |-> 0, len |-> 1]
     ELSE [k |-> "word", n |-> 0, len |-> Len(w)]

RECURSIVE Scan(_, _)
\* The tokens of s from 1-based position k on.
Scan(s, k) ==
  IF k > Len(s) THEN <<>>
  ELSE IF IsDigit(s[k])
  THEN LET e == NumeralEnd(s, k)
       IN <<[k |-> "number", n |-> ReadUnsignedNumeral(SubSeq(s, k, e - 1)), len |-> e - k]>>
            \o Scan(s, e)
  ELSE IF s[k] \in {":", "-", "+", ".", ")"}
  THEN <<[k |-> s[k], n |-> 0, len |-> 1]>> \o Scan(s, k + 1)
  ELSE IF IsWordChar(s[k])
  THEN LET e == WordEnd(s, k)
       IN <<Keyword(SubSeq(s, k, e - 1))>> \o Scan(s, e)
  ELSE IF IsSpace(s[k])
  THEN <<[k |-> "space", n |-> 0, len |-> 1]>> \o Scan(s, k + 1)
  ELSE IF s[k] = "("
  THEN <<[k |-> "unknown", n |-> 0, len |-> 0]>> \o Scan(s, ParenthesesEnd(s, k, 0))
  ELSE <<[k |-> "unknown", n |-> 0, len |-> 1]>> \o Scan(s, k + 1)

\* The token at position i, the end of input past the last one.
Peek(ts, i) == IF i <= Len(ts) THEN ts[i] ELSE [k |-> "end", n |-> 0, len |-> 0]

IsFixedNumber(tok, len) == tok.k = "number" /\ tok.len = len

IsAsciiSign(tok) == tok.k \in {"+", "-"}

IsKeywordZ(tok) == tok.k = "zone" /\ tok.len = 1

IsMonth(x) == x \in 1..12

IsDay(x) == x \in 1..31

IsHour(x) == x \in 0..23

IsMinute(x) == x \in 0..59

IsSecond(x) == x \in 0..59

IsMillisecond(x) == x \in 0..999

\* The three most significant digits of a fraction of a second.
ReadMilliseconds(tok) ==
  IF tok.len = 1 THEN tok.n * 100
  ELSE IF tok.len = 2 THEN tok.n * 10
  ELSE IF tok.len = 3 THEN tok.n
  ELSE tok.n \div Pow10((IF tok.len > 9 THEN 9 ELSE tok.len) - 3)

\* What the parser has composed: the numbers of the day, a named month (0
\* for none), the numbers of the time, the hour offset of AM/PM, the sign,
\* hour and minute of the zone (None where not set), whether a number has
\* been read, and whether the string is in the date-time string format.
\* None is the largest 32-bit integer, which no number of a date string is.
None == 2147483647

Composers ==
  [day |-> <<>>, month |-> 0, time |-> <<>>, offset |-> None,
   sign |-> None, hour |-> None, minute |-> None, number |-> FALSE, iso |-> FALSE]

\* TimeZoneComposer::Set
SetZone(st, hours) ==
  [st EXCEPT !.sign = IF hours < 0 THEN 0 - 1 ELSE 1,
             !.hour = IF hours < 0 THEN 0 - hours ELSE hours,
             !.minute = 0]

\* TimeComposer::IsExpecting
TimeIsExpecting(st, n) ==
  \/ Len(st.time) = 1 /\ IsMinute(n)
  \/ Len(st.time) = 2 /\ IsSecond(n)
  \/ Len(st.time) = 3 /\ IsMillisecond(n)

\* TimeComposer::AddFinal: n, then zeros up to four numbers.
AddFinal(time, n) ==
  IF Len(time) >= 4 THEN time
  ELSE time \o <<n>> \o [k \in 1..(3 - Len(time)) |-> 0]

\* TimeZoneComposer::IsExpecting: the hour is set, the minute is not, and n
\* is a minute.
ZoneIsExpecting(st, n) == st.hour # None /\ st.minute = None /\ IsMinute(n)

Invalid == [status |-> "invalid"]

\* The time of a date-time string, the tokens after the "T" at position i - 1:
\* HH:mm, HH:mm:ss or HH:mm:ss.s..., then Z or an offset +HH:mm or +HHmm, then
\* the end of the input. 24 is an hour only as 24:00:00.0.
ParseES5Time(ts, i, st) ==
  LET h == Peek(ts, i)
      m == Peek(ts, i + 2)
      s == Peek(ts, i + 4)
      f == Peek(ts, i + 6)
      is24 == h.n = 24
      hasSec == Peek(ts, i + 3).k = ":"
      hasFrac == hasSec /\ Peek(ts, i + 5).k = "."
      z == IF hasFrac THEN i + 7 ELSE IF hasSec THEN i + 5 ELSE i + 3
      time == <<h.n, m.n>> \o (IF hasSec THEN <<s.n>> ELSE <<>>)
                \o (IF hasFrac THEN <<ReadMilliseconds(f)>> ELSE <<>>)
      timed == [st EXCEPT !.time = time]
      sign == IF Peek(ts, z).k = "+" THEN 1 ELSE 0 - 1
      hhmm == Peek(ts, z + 1)
      mm == Peek(ts, z + 3)
      done(stz, e) ==
        IF Peek(ts, e).k = "end" THEN [status |-> "done", at |-> e, st |-> stz]
        ELSE Invalid
  IN IF ~(IsFixedNumber(h, 2) /\ h.n \in 0..24) THEN Invalid
     ELSE IF Peek(ts, i + 1).k # ":" THEN Invalid
     ELSE IF ~(IsFixedNumber(m, 2) /\ IsMinute(m.n) /\ (is24 => m.n = 0)) THEN Invalid
     ELSE IF hasSec /\ ~(IsFixedNumber(s, 2) /\ IsSecond(s.n) /\ (is24 => s.n = 0))
     THEN Invalid
     ELSE IF hasFrac /\ ~(f.k = "number" /\ (is24 => f.n = 0)) THEN Invalid
     ELSE IF IsKeywordZ(Peek(ts, z)) THEN done(SetZone(timed, 0), z + 1)
     ELSE IF IsAsciiSign(Peek(ts, z))
     THEN IF IsFixedNumber(hhmm, 4)
          THEN IF IsHour(hhmm.n \div 100) /\ IsMinute(hhmm.n % 100)
               THEN done([timed EXCEPT !.sign = sign, !.hour = hhmm.n \div 100,
                                       !.minute = hhmm.n % 100], z + 2)
               ELSE Invalid
          ELSE IF /\ IsFixedNumber(hhmm, 2) /\ IsHour(hhmm.n)
                  /\ Peek(ts, z + 2).k = ":"
                  /\ IsFixedNumber(mm, 2) /\ IsMinute(mm.n)
               THEN done([timed EXCEPT !.sign = sign, !.hour = hhmm.n, !.minute = mm.n],
                         z + 4)
               ELSE Invalid
     ELSE done(timed, z)

\* The date-time string format: [+-yy]yyyy[-MM[-DD]][THH:mm[:ss[.sss]][Z]].
\* A string that leaves the format in its date is handed to the legacy
\* parser from the first token not taken ("legacy"); one that leaves it in
\* its time is invalid.
ParseES5DateTime(ts) ==
  LET signed == IsAsciiSign(Peek(ts, 1))
      expanded == signed /\ IsFixedNumber(Peek(ts, 2), 6)
      year == IF expanded
              THEN (IF Peek(ts, 1).k = "-" THEN 0 - Peek(ts, 2).n ELSE Peek(ts, 2).n)
              ELSE Peek(ts, 1).n
      a == IF expanded THEN 3 ELSE 2
      hasMonth == Peek(ts, a).k = "-"
      mon == Peek(ts, a + 1)
      hasDay == hasMonth /\ Peek(ts, a + 2).k = "-"
      dd == Peek(ts, a + 3)
      b == IF hasDay THEN a + 4 ELSE IF hasMonth THEN a + 2 ELSE a
      day == <<year>> \o (IF hasMonth THEN <<mon.n>> ELSE <<>>)
               \o (IF hasDay THEN <<dd.n>> ELSE <<>>)
      st == [Composers EXCEPT !.day = day]
      legacy(i, d) == [status |-> "legacy", at |-> i, st |-> [Composers EXCEPT !.day = d]]
      finish(r) ==
        IF r.status # "done" THEN r
        ELSE [r EXCEPT !.st = [(IF r.st.hour = None /\ r.st.time = <<>>
                                THEN SetZone(r.st, 0) ELSE r.st) EXCEPT !.iso = TRUE]]
  IN IF signed /\ ~expanded THEN legacy(1, <<>>)
     ELSE IF expanded /\ Peek(ts, 1).k = "-" /\ Peek(ts, 2).n = 0 THEN legacy(3, <<>>)
     ELSE IF ~signed /\ ~IsFixedNumber(Peek(ts, 1), 4) THEN legacy(1, <<>>)
     ELSE IF hasMonth /\ ~(IsFixedNumber(mon, 2) /\ IsMonth(mon.n))
     THEN legacy(a + 1, <<year>>)
     ELSE IF hasDay /\ ~(IsFixedNumber(dd, 2) /\ IsDay(dd.n))
     THEN legacy(a + 3, <<year, mon.n>>)
     ELSE IF Peek(ts, b).k = "T" THEN finish(ParseES5Time(ts, b + 1, st))
     ELSE IF Peek(ts, b).k = "end" THEN finish([status |-> "done", at |-> b, st |-> st])
     ELSE legacy(b, day)

RECURSIVE ParseLegacy(_, _, _)
\* The legacy parser from token i on. Words before the first number and
\* parenthesized text are ignored; a number before ":" or "." is of the
\* time, any other number of the day; a month is named by a word; a zone by
\* a word or by a sign after the time. The result is the composers at the end
\* of the input, or Invalid.
ParseLegacy(ts, i, st) ==
  LET tok == Peek(ts, i)
      n == tok.n
      read == [st EXCEPT !.number = TRUE]
      dot == Peek(ts, i + 1).k = "."
      j == IF dot THEN i + 2 ELSE i + 1
      after == Peek(ts, j)
      num == Peek(ts, i + 1)
      signed == Peek(ts, i + 1).k = "number"
      e == IF signed THEN i + 2 ELSE i + 1
      zn == IF signed THEN num.n ELSE 0
      zlen == IF signed THEN num.len ELSE 0
      sgn == [read EXCEPT !.sign = IF tok.k = "+" THEN 1 ELSE 0 - 1]
  IN IF tok.k = "end" THEN st
     ELSE IF tok.k = "number"
     THEN IF Peek(ts, i + 1).k = ":"
          THEN IF Peek(ts, i + 2).k = ":"
               THEN IF st.time # <<>> THEN Invalid
                    ELSE ParseLegacy(ts, i + 3, [read EXCEPT !.time = <<n, 0>>])
               ELSE IF Len(st.time) >= 4 THEN Invalid
               ELSE ParseLegacy(ts, IF Peek(ts, i + 2).k = "." THEN i + 3 ELSE i + 2,
                                [read EXCEPT !.time = st.time \o <<n>>])
          ELSE IF dot /\ TimeIsExpecting(st, n)
          THEN IF after.k # "number" THEN Invalid
               ELSE ParseLegacy(ts, j + 1,
                      [read EXCEPT !.time = AddFinal(st.time \o <<n>>, ReadMilliseconds(after))])
          ELSE IF ZoneIsExpecting(st, n)
          THEN ParseLegacy(ts, j, [read EXCEPT !.minute = n])
          ELSE IF TimeIsExpecting(st, n)
          THEN IF after.k \in {"end", "space", "+", "-"} \/ IsKeywordZ(after)
               THEN ParseLegacy(ts, j, [read EXCEPT !.time = AddFinal(st.time, n)])
               ELSE Invalid
          ELSE IF Len(st.day) >= 3 THEN Invalid
          ELSE ParseLegacy(ts, IF after.k = "-" THEN j + 1 ELSE j,
                           [read EXCEPT !.day = st.day \o <<n>>])
     ELSE IF tok.k = "ampm" /\ st.time # <<>>
     THEN ParseLegacy(ts, i + 1, [st EXCEPT !.offset = n])
     ELSE IF tok.k = "month"
     THEN ParseLegacy(ts, IF Peek(ts, i + 1).k = "-" THEN i + 2 ELSE i + 1,
                      [st EXCEPT !.month = n])
     ELSE IF tok.k = "zone" /\ st.number
     THEN ParseLegacy(ts, i + 1, SetZone(st, n))
     ELSE IF tok.k \in {"ampm", "zone", "T", "word"}
     THEN IF st.number \/ Peek(ts, i + 1).k = "number" THEN Invalid
          ELSE ParseLegacy(ts, i + 1, st)
     ELSE IF IsAsciiSign(tok) /\ ((st.hour = 0 /\ st.minute = 0) \/ st.time # <<>>)
     THEN IF Peek(ts, e).k = ":"
          THEN ParseLegacy(ts, e, [sgn EXCEPT !.hour = zn, !.minute = None])
          ELSE IF zlen \in {1, 2}
          THEN ParseLegacy(ts, e, [sgn EXCEPT !.hour = zn, !.minute = 0])
          ELSE IF zlen \in {3, 4}
          THEN ParseLegacy(ts, e, [sgn EXCEPT !.hour = zn \div 100, !.minute = zn % 100])
          ELSE Invalid
     ELSE IF (IsAsciiSign(tok) \/ tok.k = ")") /\ st.number THEN Invalid
     ELSE ParseLegacy(ts, i + 1, st)

\* DayComposer::Write: the day, month and year the numbers stand for are a
\* date. Missing numbers are 1; without a named month the order is
\* year-month-day in the date-time string format or when the first number
\* is no day, else month-day-year; a year below 50 is in 2000, below 100 in 1900.
DayOf(st) ==
  LET c == st.day \o [k \in 1..(3 - Len(st.day)) |-> 1]
      ymd == st.iso \/ ~IsDay(c[1])
      y == IF st.month = 0 THEN (IF ymd THEN c[1] ELSE c[3])
           ELSE IF ~IsDay(c[1]) THEN c[1] ELSE c[2]
      m == IF st.month # 0 THEN st.month ELSE IF ymd THEN c[2] ELSE c[1]
      d == IF st.month = 0 THEN (IF ymd THEN c[3] ELSE c[2])
           ELSE IF ~IsDay(c[1]) THEN c[2] ELSE c[1]
      year == IF st.iso THEN y
              ELSE IF y \in 0..49 THEN y + 2000
              ELSE IF y \in 50..99 THEN y + 1900 ELSE y
  IN [year |-> year, month |-> m, day |-> d]

\* TimeComposer::Write: the hour (of 12 with AM/PM), minute, second and
\* millisecond are a time; 24:00:00.000 is one.
TimeOf(st) ==
  LET c == st.time \o [k \in 1..(4 - Len(st.time)) |-> 0]
      hour == IF st.offset = None THEN c[1] ELSE (c[1] % 12) + st.offset
  IN [hour12 |-> c[1], hour |-> hour, minute |-> c[2], second |-> c[3], ms |-> c[4]]

\* TimeZoneComposer::Write: the seconds of the zone, hour * 3600 + minute *
\* 60 in 32-bit arithmetic, or -1 when that is above 2^31 - 1. A 32-bit
\* unsigned integer is kept as two halves of 16 bits: Times32(x, k) is x * k
\* modulo 2^32 for 0 <= x < 2^30 and 0 < k <= 3600, Plus32(a, b) is a + b
\* modulo 2^32.
ZoneSeconds(st) ==
  LET Half == 65536
      Times32(x, k) ==
        LET low == (x % Half) * k
        IN [hi |-> ((x \div Half) * k + low \div Half) % Half, lo |-> low % Half]
      Plus32(a, b) ==
        LET low == a.lo + b.lo
        IN [hi |-> (a.hi + b.hi + low \div Half) % Half, lo |-> low % Half]
      h == IF st.hour = None THEN 0 ELSE st.hour
      m == IF st.minute = None THEN 0 ELSE st.minute
      total == Plus32(Times32(h, 3600), Times32(m, 60))
  IN IF total.hi >= Half \div 2 THEN 0 - 1 ELSE total.hi * Half + total.lo

\* MakeDay(year, month, date): the day number of a date, 0 on 1970-01-01;
\* a day of the month past its end counts on into the next month. The years
\* are shifted by kYearDelta to be positive; DaysBefore(y) is the days
\* before the first of January of shifted year y, kDayFromMonth the days of
\* a common year before the first of each month.
MakeDay(year, month, date) ==
  LET kYearDelta == 399999
      DaysBefore(y) == 365 * y + y \div 4 - y \div 100 + y \div 400
      kBaseDay == DaysBefore(1970 + kYearDelta)
      kDayFromMonth == <<0, 31, 59, 90, 120, 151, 181, 212, 243, 273, 304, 334>>
      IsLeap == year % 4 = 0 /\ (year % 100 # 0 \/ year % 400 = 0)
  IN DaysBefore(year + kYearDelta) - kBaseDay + kDayFromMonth[month]
       + (IF IsLeap /\ month > 2 THEN 1 ELSE 0) + date - 1

\* The composers make a time value: a day, a time and a zone that can be
\* written, and the time they stand for, less the offset of the zone, is
\* within 8.64e15 ms of the epoch (TimeClip). The sum is kept as days and
\* milliseconds of the day: a time value is at most MaxDays days from the
\* epoch. MakeDay takes the years -399999..1000000 (below them the date is
\* out of range as well). A time without a zone is local time, and the
\* host's zone is taken to be UTC.
IsDate(st) ==
  LET msPerDay == 86400000
      MaxDays == 100000000
      d == DayOf(st)
      t == TimeOf(st)
      zone == IF st.sign = None THEN 0 ELSE ZoneSeconds(st)
      east == st.sign = None \/ st.sign > 0
      ms == t.hour * 3600000 + t.minute * 60000 + t.second * 1000 + t.ms
      shifted == IF east THEN ms - (zone % 86400) * 1000
                 ELSE ms + (zone % 86400) * 1000
      day == MakeDay(d.year, d.month, d.day)
               + (IF east THEN 0 - (zone \div 86400) ELSE zone \div 86400)
               + shifted \div msPerDay
  IN /\ Len(st.day) >= 1
     /\ IsMonth(d.month) /\ IsDay(d.day)
     /\ st.offset # None => t.hour12 \in 0..12
     /\ \/ IsHour(t.hour) /\ IsMinute(t.minute) /\ IsSecond(t.second) /\ IsMillisecond(t.ms)
        \/ t.hour = 24 /\ t.minute = 0 /\ t.second = 0 /\ t.ms = 0
     /\ zone >= 0
     /\ d.year \in (0 - 399999)..1000000
     /\ day >= 0 - MaxDays
     /\ day < MaxDays \/ (day = MaxDays /\ shifted % msPerDay = 0)

\* Date.parse(s) is a number. The parser takes a U+0000 for the end of the
\* input.
IsDateString(s) ==
  LET nul == {k \in 1..Len(s) : s[k] = "U+0000"}
      text == IF nul = {} THEN s
              ELSE SubSeq(s, 1, (CHOOSE k \in nul : \A m \in nul : k <= m) - 1)
      ts == Scan(text, 1)
      es5 == ParseES5DateTime(ts)
      st == IF es5.status = "legacy" THEN ParseLegacy(ts, es5.at, [es5.st EXCEPT !.number = es5.st.day # <<>>])
            ELSE IF es5.status = "done" THEN es5.st
            ELSE Invalid
  IN st # Invalid /\ IsDate(st)

\* new Date(value) is a valid date: a string is parsed, an array or an
\* object is parsed as its string, undefined is NaN, null and a boolean are
\* a number, and every number this module can write is within 8.64e15 ms of
\* the epoch.
IsValidDate(value) ==
  CASE value.t \in {"string", "array", "object"} ->
         IsDateString(IF value.t = "string" THEN value.s ELSE toString(value))
    [] value.t \in {"number", "null", "boolean"} -> TRUE
    [] OTHER -> FALSE

\* The names of the host's time zone database that Intl takes: the zones
\* and links of the IANA database and the older names the database of the
\* engine keeps beside them.
TimeZoneNames ==
  {
    <<"A", "C", "T">>,
    <<"A", "E", "T">>,
    <<"A", "G", "T">>,
    <<"A", "R", "T">>,
    <<"A", "S", "T">>,
    <<"A", "f", "r", "i", "c", "a", "/", "A", "b", "i", "d", "j", "a", "n">>,
    <<"A", "f", "r", "i", "c", "a", "/", "A", "c", "c", "r", "a">>,
    <<"A", "f", "r", "i", "c", "a", "/", "A", "d", "d", "i", "s", "_", "A", "b", "a", "b", "a">>,
    <<"A", "f", "r", "i", "c", "a", "/", "A", "l", "g", "i", "e", "r", "s">>,
    <<"A", "f", "r", "i", "c", "a", "/", "A", "s", "m", "a", "r", "a">>,
    <<"A", "f", "r", "i", "c", "a", "/", "A", "s", "m", "e", "r", "a">>,
    <<"A", "f", "r", "i", "c", "a", "/", "B", "a", "m", "a", "k", "o">>,
    <<"A", "f", "r", "i", "c", "a", "/", "B", "a", "n", "g", "u", "i">>,
    <<"A", "f", "r", "i", "c", "a", "/", "B", "a", "n", "j", "u", "l">>,
    <<"A", "f", "r", "i", "c", "a", "/", "B", "i", "s", "s", "a", "u">>,
    <<"A", "f", "r", "i", "c", "a", "/", "B", "l", "a", "n", "t", "y", "r", "e">>,
    <<"A", "f", "r", "i", "c", "a", "/", "B", "r", "a", "z", "z", "a", "v", "i", "l", "l", "e">>,
    <<"A", "f", "r", "i", "c", "a", "/", "B", "u", "j", "u", "m", "b", "u", "r", "a">>,
    <<"A", "f", "r", "i", "c", "a", "/", "C", "a", "i", "r", "o">>,
    <<"A", "f", "r", "i", "c", "a", "/", "C", "a", "s", "a", "b", "l", "a", "n", "c", "a">>,
    <<"A", "f", "r", "i", "c", "a", "/", "C", "e", "u", "t", "a">>,
    <<"A", "f", "r", "i", "c", "a", "/", "C", "o", "n", "a", "k", "r", "y">>,
    <<"A", "f", "r", "i", "c", "a", "/", "D", "a", "k", "a", "r">>,
    <<"A", "f", "r", "i", "c", "a", "/", "D", "a", "r", "_", "e", "s", "_", "S", "a", "l", "a", "a", "m">>,
    <<"A", "f", "r", "i", "c", "a", "/", "D", "j", "i", "b", "o", "u", "t", "i">>,
    <<"A", "f", "r", "i", "c", "a", "/", "D", "o", "u", "a", "l", "a">>,
    <<"A", "f", "r", "i", "c", "a", "/", "E", "l", "_", "A", "a", "i", "u", "n">>,
    <<"A", "f", "r", "i", "c", "a", "/", "F", "r", "e", "e", "t", "o", "w", "n">>,
    <<"A", "f", "r", "i", "c", "a", "/", "G", "a", "b", "o", "r", "o", "n", "e">>,
    <<"A", "f", "r", "i", "c", "a", "/", "H", "a", "r", "a", "r", "e">>,
    <<"A", "f", "r", "i", "c", "a", "/", "J", "o", "h", "a", "n", "n", "e", "s", "b", "u", "r", "g">>,
    <<"A", "f", "r", "i", "c", "a", "/", "J", "u", "b", "a">>,
    <<"A", "f", "r", "i", "c", "a", "/", "K", "a", "m", "p", "a", "l", "a">>,
    <<"A", "f", "r", "i", "c", "a", "/", "K", "h", "a", "r", "t", "o", "u", "m">>,
    <<"A", "f", "r", "i", "c", "a", "/", "K", "i", "g", "a", "l", "i">>,
    <<"A", "f", "r", "i", "c", "a", "/", "K", "i", "n", "s", "h", "a", "s", "a">>,
    <<"A", "f", "r", "i", "c", "a", "/", "L", "a", "g", "o", "s">>,
    <<"A", "f", "r", "i", "c", "a", "/", "L", "i", "b", "r", "e", "v", "i", "l", "l", "e">>,
    <<"A", "f", "r", "i", "c", "a", "/", "L", "o", "m", "e">>,
    <<"A", "f", "r", "i", "c", "a", "/", "L", "u", "a", "n", "d", "a">>,
    <<"A", "f", "r", "i", "c", "a", "/", "L", "u", "b", "u", "m", "b", "a", "s", "h", "i">>,
    <<"A", "f", "r", "i", "c", "a", "/", "L", "u", "s", "a", "k", "a">>,
    <<"A", "f", "r", "i", "c", "a", "/", "M", "a", "l", "a", "b", "o">>,
    <<"A", "f", "r", "i", "c", "a", "/", "M", "a", "p", "u", "t", "o">>,
    <<"A", "f", "r", "i", "c", "a", "/", "M", "a", "s", "e", "r", "u">>,
    <<"A", "f", "r", "i", "c", "a", "/", "M", "b", "a", "b", "a", "n", "e">>,
    <<"A", "f", "r", "i", "c", "a", "/", "M", "o", "g", "a", "d", "i", "s", "h", "u">>,
    <<"A", "f", "r", "i", "c", "a", "/", "M", "o", "n", "r", "o", "v", "i", "a">>,
    <<"A", "f", "r", "i", "c", "a", "/", "N", "a", "i", "r", "o", "b", "i">>,
    <<"A", "f", "r", "i", "c", "a", "/", "N", "d", "j", "a", "m", "e", "n", "a">>,
    <<"A", "f", "r", "i", "c", "a", "/", "N", "i", "a", "m", "e", "y">>,
    <<"A", "f", "r", "i", "c", "a", "/", "N", "o", "u", "a", "k", "c", "h", "o", "t", "t">>,
    <<"A", "f", "r", "i", "c", "a", "/", "O", "u", "a", "g", "a", "d", "o", "u", "g", "o", "u">>,
    <<"A", "f", "r", "i", "c", "a", "/", "P", "o", "r", "t", "o", "-", "N", "o", "v", "o">>,
    <<"A", "f", "r", "i", "c", "a", "/", "S", "a", "o", "_", "T", "o", "m", "e">>,
    <<"A", "f", "r", "i", "c", "a", "/", "T", "i", "m", "b", "u", "k", "t", "u">>,
    <<"A", "f", "r", "i", "c", "a", "/", "T", "r", "i", "p", "o", "l", "i">>,
    <<"A", "f", "r", "i", "c", "a", "/", "T", "u", "n", "i", "s">>,
    <<"A", "f", "r", "i", "c", "a", "/", "W", "i", "n", "d", "h", "o", "e", "k">>,
    <<"A", "m", "e", "r", "i", "c", "a", "/", "A", "d", "a", "k">>,
    <<"A", "m", "e", "r", "i", "c", "a", "/", "A", "n", "c", "h", "o", "r", "a", "g", "e">>,
    <<"A", "m", "e", "r", "i", "c", "a", "/", "A", "n", "g", "u", "i", "l", "l", "a">>,
    <<"A", "m", "e", "r", "i", "c", "a", "/", "A", "n", "t", "i", "g", "u", "a">>,
    <<"A", "m", "e", "r", "i", "c", "a", "/", "A", "r", "a", "g", "u", "a", "i", "n", "a">>,
    <<"A", "m", "e", "r", "i", "c", "a", "/", "A", "r", "g", "e", "n", "t", "i", "n", "a", "/", "B", "u", "e", "n", "o", "s", "_", "A", "i", "r", "e", "s">>,
    <<"A", "m", "e", "r", "i", "c", "a", "/", "A", "r", "g", "e", "n", "t", "i", "n", "a", "/", "C", "a", "t", "a", "m", "a", "r", "c", "a">>,
    <<"A", "m", "e", "r", "i", "c", "a", "/", "A", "r", "g", "e", "n", "t", "i", "n", "a", "/", "C", "o", "m", "o", "d", "R", "i", "v", "a", "d", "a", "v", "i", "a">>,
    <<"A", "m", "e", "r", "i", "c", "a", "/", "A", "r", "g", "e", "n", "t", "i", "n", "a", "/", "C", "o", "r", "d", "o", "b", "a">>,
    <<"A", "m", "e", "r", "i", "c", "a", "/", "A", "r", "g", "e", "n", "t", "i", "n", "a", "/", "J", "u", "j", "u", "y">>,
    <<"A", "m", "e", "r", "i", "c", "a", "/", "A", "r", "g", "e", "n", "t", "i", "n", "a", "/", "L", "a", "_", "R", "i", "o", "j", "a">>,
    <<"A", "m", "e", "r", "i", "c", "a", "/", "A", "r", "g", "e", "n", "t", "i", "n", "a", "/", "M", "e", "n", "d", "o", "z", "a">>,
    <<"A", "m", "e", "r", "i", "c", "a", "/", "A", "r", "g", "e", "n", "t", "i", "n", "a", "/", "R", "i", "o", "_", "G", "a", "l", "l", "e", "g", "o", "s">>,
    <<"A", "m", "e", "r", "i", "c", "a", "/", "A", "r", "g", "e", "n", "t", "i", "n", "a", "/", "S", "a", "l", "t", "a">>,
    <<"A", "m", "e", "r", "i", "c", "a", "/", "A", "r", "g", "e", "n", "t", "i", "n", "a", "/", "S", "a", "n", "_", "J", "u", "a", "n">>,
    <<"A", "m", "e", "r", "i", "c", "a", "/", "A", "r", "g", "e", "n", "t", "i", "n", "a", "/", "S", "a", "n", "_", "L", "u", "i", "s">>,
    <<"A", "m", "e", "r", "i", "c", "a", "/", "A", "r", "g", "e", "n", "t", "i", "n", "a", "/", "T", "u", "c", "u", "m", "a", "n">>,
    <<"A", "m", "e", "r", "i", "c", "a", "/", "A", "r", "g", "e", "n", "t", "i", "n", "a", "/", "U", "s", "h", "u", "a", "i", "a">>,
    <<"A", "m", "e", "r", "i", "c", "a", "/", "A", "r", "u", "b", "a">>,
    <<"A", "m", "e", "r", "i", "c", "a", "/", "A", "s", "u", "n", "c", "i", "o", "n">>,
    <<"A", "m", "e", "r", "i", "c", "a", "/", "A", "t", "i", "k", "o", "k", "a", "n">>,
    <<"A", "m", "e", "r", "i", "c", "a", "/", "A", "t", "k", "a">>,
    <<"A", "m", "e", "r", "i", "c", "a", "/", "B", "a", "h", "i", "a">>,
    <<"A", "m", "e", "r", "i", "c", "a", "/", "B", "a", "h", "i", "a", "_", "B", "a", "n", "d", "e", "r", "a", "s">>,
    <<"A", "m", "e", "r", "i", "c", "a", "/", "B", "a", "r", "b", "a", "d", "o", "s">>,
    <<"A", "m", "e", "r", "i", "c", "a", "/", "B", "e", "l", "e", "m">>,
    <<"A", "m", "e", "r", "i", "c", "a", "/", "B", "e", "l", "i", "z", "e">>,
    <<"A", "m", "e", "r", "i", "c", "a", "/", "B", "l", "a", "n", "c", "-", "S", "a", "b", "l", "o", "n">>,
    <<"A", "m", "e", "r", "i", "c", "a", "/", "B", "o", "a", "_", "V", "i", "s", "t", "a">>,
    <<"A", "m", "e", "r", "i", "c", "a", "/", "B", "o", "g", "o", "t", "a">>,
    <<"A", "m", "e", "r", "i", "c", "a", "/", "B", "o", "i", "s", "e">>,
    <<"A", "m", "e", "r", "i", "c", "a", "/", "B", "u", "e", "n", "o", "s", "_", "A", "i", "r", "e", "s">>,
    <<"A", "m", "e", "r", "i", "c", "a", "/", "C", "a", "m", "b", "r", "i", "d", "g", "e", "_", "B", "a", "y">>,
    <<"A", "m", "e", "r", "i", "c", "a", "/", "C", "a", "m", "p", "o", "_", "G", "r", "a", "n", "d", "e">>,
    <<"A", "m", "e", "r", "i", "c", "a", "/", "C", "a", "n", "c", "u", "n">>,
    <<"A", "m", "e", "r", "i", "c", "a", "/", "C", "a", "r", "a", "c", "a", "s">>,
    <<"A", "m", "e", "r", "i", "c", "a", "/", "C", "a", "t", "a", "m", "a", "r", "c", "a">>,
    <<"A", "m", "e", "r", "i", "c", "a", "/", "C", "a", "y", "e", "n", "n", "e">>,
    <<"A", "m", "e", "r", "i", "c", "a", "/", "C", "a", "y", "m", "a", "n">>,
    <<"A", "m", "e", "r", "i", "c", "a", "/", "C", "h", "i", "c", "a", "g", "o">>,
    <<"A", "m", "e", "r", "i", "c", "a", "/", "C", "h", "i", "h", "u", "a", "h", "u", "a">>,
    <<"A", "m", "e", "r", "i", "c", "a", "/", "C", "i", "u", "d", "a", "d", "_", "J", "u", "a", "r", "e", "z">>,
    <<"A", "m", "e", "r", "i", "c", "a", "/", "C", "o", "r", "a", "l", "_", "H", "a", "r", "b", "o", "u", "r">>,
    <<"A", "m", "e", "r", "i", "c", "a", "/", "C", "o", "r", "d", "o", "b", "a">>,
    <<"A", "m", "e", "r", "i", "c", "a", "/", "C", "o", "s", "t", "a", "_", "R", "i", "c", "a">>,
    <<"A", "m", "e", "r", "i", "c", "a", "/", "C", "o", "y", "h", "a", "i", "q", "u", "e">>,
    <<"A", "m", "e", "r", "i", "c", "a", "/", "C", "r", "e", "s", "t", "o", "n">>,
    <<"A", "m", "e", "r", "i", "c", "a", "/", "C", "u", "i", "a", "b", "a">>,
    <<"A", "m", "e", "r", "i", "c", "a", "/", "C", "u", "r", "a", "c", "a", "o">>,
    <<"A", "m", "e", "r", "i", "c", "a", "/", "D", "a", "n", "m", "a", "r", "k", "s", "h", "a", "v", "n">>,
    <<"A", "m", "e", "r", "i", "c", "a", "/", "D", "a", "w", "s", "o", "n">>,
    <<"A", "m", "e", "r", "i", "c", "a", "/", "D", "a", "w", "s", "o", "n", "_", "C", "r", "e", "e", "k">>,
    <<"A", "m", "e", "r", "i", "c", "a", "/", "D", "e", "n", "v", "e", "r">>,
    <<"A", "m", "e", "r", "i", "c", "a", "/", "D", "e", "t", "r", "o", "i", "t">>,
    <<"A", "m", "e", "r", "i", "c", "a", "/", "D", "o", "m", "i", "n", "i", "c", "a">>,
    <<"A", "m", "e", "r", "i", "c", "a", "/", "E", "d", "m", "o", "n", "t", "o", "n">>,
    <<"A", "m", "e", "r", "i", "c", "a", "/", "E", "i", "r", "u", "n", "e", "p", "e">>,
    <<"A", "m", "e", "r", "i", "c", "a", "/", "E", "l", "_", "S", "a", "l", "v", "a", "d", "o", "r">>,
    <<"A", "m", "e", "r", "i", "c", "a", "/", "E", "n", "s", "e", "n", "a", "d", "a">>,
    <<"A", "m", "e", "r", "i", "c", "a", "/", "F", "o", "r", "t", "_", "N", "e", "l", "s", "o", "n">>,
    <<"A", "m", "e", "r", "i", "c", "a", "/", "F", "o", "r", "t", "_", "W", "a", "y", "n", "e">>,
    <<"A", "m", "e", "r", "i", "c", "a", "/", "F", "o", "r", "t", "a", "l", "e", "z", "a">>,
    <<"A", "m", "e", "r", "i", "c", "a", "/", "G", "l", "a", "c", "e", "_", "B", "a", "y">>,
    <<"A", "m", "e", "r", "i", "c", "a", "/", "G", "o", "d", "t", "h", "a", "b">>,
    <<"A", "m", "e", "r", "i", "c", "a", "/", "G", "o", "o", "s", "e", "_", "B", "a", "y">>,
    <<"A", "m", "e", "r", "i", "c", "a", "/", "G", "r", "a", "n", "d", "_", "T", "u", "r", "k">>,
    <<"A", "m", "e", "r", "i", "c", "a", "/", "G", "r", "e", "n", "a", "d", "a">>,
    <<"A", "m", "e", "r", "i", "c", "a", "/", "G", "u", "a", "d", "e", "l", "o", "u", "p", "e">>,
    <<"A", "m", "e", "r", "i", "c", "a", "/", "G", "u", "a", "t", "e", "m", "a", "l", "a">>,
    <<"A", "m", "e", "r", "i", "c", "a", "/", "G", "u", "a", "y", "a", "q", "u", "i", "l">>,
    <<"A", "m", "e", "r", "i", "c", "a", "/", "G", "u", "y", "a", "n", "a">>,
    <<"A", "m", "e", "r", "i", "c", "a", "/", "H", "a", "l", "i", "f", "a", "x">>,
    <<"A", "m", "e", "r", "i", "c", "a", "/", "H", "a", "v", "a", "n", "a">>,
    <<"A", "m", "e", "r", "i", "c", "a", "/", "H", "e", "r", "m", "o", "s", "i", "l", "l", "o">>,
    <<"A", "m", "e", "r", "i", "c", "a", "/", "I", "n", "d", "i", "a", "n", "a", "/", "I", "n", "d", "i", "a", "n", "a", "p", "o", "l", "i", "s">>,
    <<"A", "m", "e", "r", "i", "c", "a", "/", "I", "n", "d", "i", "a", "n", "a", "/", "K", "n", "o", "x">>,
    <<"A", "m", "e", "r", "i", "c", "a", "/", "I", "n", "d", "i", "a", "n", "a", "/", "M", "a", "r", "e", "n", "g", "o">>,
    <<"A", "m", "e", "r", "i", "c", "a", "/", "I", "n", "d", "i", "a", "n", "a", "/", "P", "e", "t", "e", "r", "s", "b", "u", "r", "g">>,
    <<"A", "m", "e", "r", "i", "c", "a", "/", "I", "n", "d", "i", "a", "n", "a", "/", "T", "e", "l", "l", "_", "C", "i", "t", "y">>,
    <<"A", "m", "e", "r", "i", "c", "a", "/", "I", "n", "d", "i", "a", "n", "a", "/", "V", "e", "v", "a", "y">>,
    <<"A", "m", "e", "r", "i", "c", "a", "/", "I", "n", "d", "i", "a", "n", "a", "/", "V", "i", "n", "c", "e", "n", "n", "e", "s">>,
    <<"A", "m", "e", "r", "i", "c", "a", "/", "I", "n", "d", "i", "a", "n", "a", "/", "W", "i", "n", "a", "m", "a", "c">>,
    <<"A", "m", "e", "r", "i", "c", "a", "/", "I", "n", "d", "i", "a", "n", "a", "p", "o", "l", "i", "s">>,
    <<"A", "m", "e", "r", "i", "c", "a", "/", "I", "n", "u", "v", "i", "k">>,
    <<"A", "m", "e", "r", "i", "c", "a", "/", "I", "q", "a", "l", "u", "i", "t">>,
    <<"A", "m", "e", "r", "i", "c", "a", "/", "J", "a", "m", "a", "i", "c", "a">>,
    <<"A", "m", "e", "r", "i", "c", "a", "/", "J", "u", "j", "u", "y">>,
    <<"A", "m", "e", "r", "i", "c", "a", "/", "J", "u", "n", "e", "a", "u">>,
    <<"A", "m", "e", "r", "i", "c", "a", "/", "K", "e", "n", "t", "u", "c", "k", "y", "/", "L", "o", "u", "i", "s", "v", "i", "l", "l", "e">>,
    <<"A", "m", "e", "r", "i", "c", "a", "/", "K", "e", "n", "t", "u", "c", "k", "y", "/", "M", "o", "n", "t", "i", "c", "e", "l", "l", "o">>,
    <<"A", "m", "e", "r", "i", "c", "a", "/", "K", "n", "o", "x", "_", "I", "N">>,
    <<"A", "m", "e", "r", "i", "c", "a", "/", "K", "r", "a", "l", "e", "n", "d", "i", "j", "k">>,
    <<"A", "m", "e", "r", "i", "c", "a", "/", "L", "a", "_", "P", "a", "z">>,
    <<"A", "m", "e", "r", "i", "c", "a", "/", "L", "i", "m", "a">>,
    <<"A", "m", "e", "r", "i", "c", "a", "/", "L", "o", "s", "_", "A", "n", "g", "e", "l", "e", "s">>,
    <<"A", "m", "e", "r", "i", "c", "a", "/", "L", "o", "u", "i", "s", "v", "i", "l", "l", "e">>,
    <<"A", "m", "e", "r", "i", "c", "a", "/", "L", "o", "w", "e", "r", "_", "P", "r", "i", "n", "c", "e", "s">>,
    <<"A", "m", "e", "r", "i", "c", "a", "/", "M", "a", "c", "e", "i", "o">>,
    <<"A", "m", "e", "r", "i", "c", "a", "/", "M", "a", "n", "a", "g", "u", "a">>,
    <<"A", "m", "e", "r", "i", "c", "a", "/", "M", "a", "n", "a", "u", "s">>,
    <<"A", "m", "e", "r", "i", "c", "a", "/", "M", "a", "r", "i", "g", "o", "t">>,
    <<"A", "m", "e", "r", "i", "c", "a", "/", "M", "a", "r", "t", "i", "n", "i", "q", "u", "e">>,
    <<"A", "m", "e", "r", "i", "c", "a", "/", "M", "a", "t", "a", "m", "o", "r", "o", "s">>,
    <<"A", "m", "e", "r", "i", "c", "a", "/", "M", "a", "z", "a", "t", "l", "a", "n">>,
    <<"A", "m", "e", "r", "i", "c", "a", "/", "M", "e", "n", "d", "o", "z", "a">>,
    <<"A", "m", "e", "r", "i", "c", "a", "/", "M", "e", "n", "o", "m", "i", "n", "e", "e">>,
    <<"A", "m", "e", "r", "i", "c", "a", "/", "M", "e", "r", "i", "d", "a">>,
    <<"A", "m", "e", "r", "i", "c", "a", "/", "M", "e", "t", "l", "a", "k", "a", "t", "l", "a">>,
    <<"A", "m", "e", "r", "i", "c", "a", "/", "M", "e", "x", "i", "c", "o", "_", "C", "i", "t", "y">>,
    <<"A", "m", "e", "r", "i", "c", "a", "/", "M", "i", "q", "u", "e", "l", "o", "n">>,
    <<"A", "m", "e", "r", "i", "c", "a", "/", "M", "o", "n", "c", "t", "o", "n">>,
    <<"A", "m", "e", "r", "i", "c", "a", "/", "M", "o", "n", "t", "e", "r", "r", "e", "y">>,
    <<"A", "m", "e", "r", "i", "c", "a", "/", "M", "o", "n", "t", "e", "v", "i", "d", "e", "o">>,
    <<"A", "m", "e", "r", "i", "c", "a", "/", "M", "o", "n", "t", "r", "e", "a", "l">>,
    <<"A", "m", "e", "r", "i", "c", "a", "/", "M", "o", "n", "t", "s", "e", "r", "r", "a", "t">>,
    <<"A", "m", "e", "r", "i", "c", "a", "/", "N", "a", "s", "s", "a", "u">>,
    <<"A", "m", "e", "r", "i", "c", "a", "/", "N", "e", "w", "_", "Y", "o", "r", "k">>,
    <<"A", "m", "e", "r", "i", "c", "a", "/", "N", "i", "p", "i", "g", "o", "n">>,
    <<"A", "m", "e", "r", "i", "c", "a", "/", "N", "o", "m", "e">>,
    <<"A", "m", "e", "r", "i", "c", "a", "/", "N", "o", "r", "o", "n", "h", "a">>,
    <<"A", "m", "e", "r", "i", "c", "a", "/", "N", "o", "r", "t", "h", "_", "D", "a", "k", "o", "t", "a", "/", "B", "e", "u", "l", "a", "h">>,
    <<"A", "m", "e", "r", "i", "c", "a", "/", "N", "o", "r", "t", "h", "_", "D", "a", "k", "o", "t", "a", "/", "C", "e", "n", "t", "e", "r">>,
    <<"A", "m", "e", "r", "i", "c", "a", "/", "N", "o", "r", "t", "h", "_", "D", "a", "k", "o", "t", "a", "/", "N", "e", "w", "_", "S", "a", "l", "e", "m">>,
    <<"A", "m", "e", "r", "i", "c", "a", "/", "N", "u", "u", "k">>,
    <<"A", "m", "e", "r", "i", "c", "a", "/", "O", "j", "i", "n", "a", "g", "a">>,
    <<"A", "m", "e", "r", "i", "c", "a", "/", "P", "a", "n", "a", "m", "a">>,
    <<"A", "m", "e", "r", "i", "c", "a", "/", "P", "a", "n", "g", "n", "i", "r", "t", "u", "n", "g">>,
    <<"A", "m", "e", "r", "i", "c", "a", "/", "P", "a", "r", "a", "m", "a", "r", "i", "b", "o">>,
    <<"A", "m", "e", "r", "i", "c", "a", "/", "P", "h", "o", "e", "n", "i", "x">>,
    <<"A", "m", "e", "r", "i", "c", "a", "/", "P", "o", "r", "t", "-", "a", "u", "-", "P", "r", "i", "n", "c", "e">>,
    <<"A", "m", "e", "r", "i", "c", "a", "/", "P", "o", "r", "t", "_", "o", "f", "_", "S", "p", "a", "i", "n">>,
    <<"A", "m", "e", "r", "i", "c", "a", "/", "P", "o", "r", "t", "o", "_", "A", "c", "r", "e">>,
    <<"A", "m", "e", "r", "i", "c", "a", "/", "P", "o", "r", "t", "o", "_", "V", "e", "l", "h", "o">>,
    <<"A", "m", "e", "r", "i", "c", "a", "/", "P", "u", "e", "r", "t", "o", "_", "R", "i", "c", "o">>,
    <<"A", "m", "e", "r", "i", "c", "a", "/", "P", "u", "n", "t", "a", "_", "A", "r", "e", "n", "a", "s">>,
    <<"A", "m", "e", "r", "i", "c", "a", "/", "R", "a", "i", "n", "y", "_", "R", "i", "v", "e", "r">>,
    <<"A", "m", "e", "r", "i", "c", "a", "/", "R", "a", "n", "k", "i", "n", "_", "I", "n", "l", "e", "t">>,
    <<"A", "m", "e", "r", "i", "c", "a", "/", "R", "e", "c", "i", "f", "e">>,
    <<"A", "m", "e", "r", "i", "c", "a", "/", "R", "e", "g", "i", "n", "a">>,
    <<"A", "m", "e", "r", "i", "c", "a", "/", "R", "e", "s", "o", "l", "u", "t", "e">>,
    <<"A", "m", "e", "r", "i", "c", "a", "/", "R", "i", "o", "_", "B", "r", "a", "n", "c", "o">>,
    <<"A", "m", "e", "r", "i", "c", "a", "/", "R", "o", "s", "a", "r", "i", "o">>,
    <<"A", "m", "e", "r", "i", "c", "a", "/", "S", "a", "n", "t", "a", "_", "I", "s", "a", "b", "e", "l">>,
    <<"A", "m", "e", "r", "i", "c", "a", "/", "S", "a", "n", "t", "a", "r", "e", "m">>,
    <<"A", "m", "e", "r", "i", "c", "a", "/", "S", "a", "n", "t", "i", "a", "g", "o">>,
    <<"A", "m", "e", "r", "i", "c", "a", "/", "S", "a", "n", "t", "o", "_", "D", "o", "m", "i", "n", "g", "o">>,
    <<"A", "m", "e", "r", "i", "c", "a", "/", "S", "a", "o", "_", "P", "a", "u", "l", "o">>,
    <<"A", "m", "e", "r", "i", "c", "a", "/", "S", "c", "o", "r", "e", "s", "b", "y", "s", "u", "n", "d">>,
    <<"A", "m", "e", "r", "i", "c", "a", "/", "S", "h", "i", "p", "r", "o", "c", "k">>,
    <<"A", "m", "e", "r", "i", "c", "a", "/", "S", "i", "t", "k", "a">>,
    <<"A", "m", "e", "r", "i", "c", "a", "/", "S", "t", "_", "B", "a", "r", "t", "h", "e", "l", "e", "m", "y">>,
    <<"A", "m", "e", "r", "i", "c", "a", "/", "S", "t", "_", "J", "o", "h", "n", "s">>,
    <<"A", "m", "e", "r", "i", "c", "a", "/", "S", "t", "_", "K", "i", "t", "t", "s">>,
    <<"A", "m", "e", "r", "i", "c", "a", "/", "S", "t", "_", "L", "u", "c", "i", "a">>,
    <<"A", "m", "e", "r", "i", "c", "a", "/", "S", "t", "_", "T", "h", "o", "m", "a", "s">>,
    <<"A", "m", "e", "r", "i", "c", "a", "/", "S", "t", "_", "V", "i", "n", "c", "e", "n", "t">>,
    <<"A", "m", "e", "r", "i", "c", "a", "/", "S", "w", "i", "f", "t", "_", "C", "u", "r", "r", "e", "n", "t">>,
    <<"A", "m", "e", "r", "i", "c", "a", "/", "T", "e", "g", "u", "c", "i", "g", "a", "l", "p", "a">>,
    <<"A", "m", "e", "r", "i", "c", "a", "/", "T", "h", "u", "l", "e">>,
    <<"A", "m", "e", "r", "i", "c", "a", "/", "T", "h", "u", "n", "d", "e", "r", "_", "B", "a", "y">>,
    <<"A", "m", "e", "r", "i", "c", "a", "/", "T", "i", "j", "u", "a", "n", "a">>,
    <<"A", "m", "e", "r", "i", "c", "a", "/", "T", "o", "r", "o", "n", "t", "o">>,
    <<"A", "m", "e", "r", "i", "c", "a", "/", "T", "o", "r", "t", "o", "l", "a">>,
    <<"A", "m", "e", "r", "i", "c", "a", "/", "V", "a", "n", "c", "o", "u", "v", "e", "r">>,
    <<"A", "m", "e", "r", "i", "c", "a", "/", "V", "i", "r", "g", "i", "n">>,
    <<"A", "m", "e", "r", "i", "c", "a", "/", "W", "h", "i", "t", "e", "h", "o", "r", "s", "e">>,
    <<"A", "m", "e", "r", "i", "c", "a", "/", "W", "i", "n", "n", "i", "p", "e", "g">>,
    <<"A", "m", "e", "r", "i", "c", "a", "/", "Y", "a", "k", "u", "t", "a", "t">>,
    <<"A", "m", "e", "r", "i", "c", "a", "/", "Y", "e", "l", "l", "o", "w", "k", "n", "i", "f", "e">>,
    <<"A", "n", "t", "a", "r", "c", "t", "i", "c", "a", "/", "C", "a", "s", "e", "y">>,
    <<"A", "n", "t", "a", "r", "c", "t", "i", "c", "a", "/", "D", "a", "v", "i", "s">>,
    <<"A", "n", "t", "a", "r", "c", "t", "i", "c", "a", "/", "D", "u", "m", "o", "n", "t", "D", "U", "r", "v", "i", "l", "l", "e">>,
    <<"A", "n", "t", "a", "r", "c", "t", "i", "c", "a", "/", "M", "a", "c", "q", "u", "a", "r", "i", "e">>,
    <<"A", "n", "t", "a", "r", "c", "t", "i", "c", "a", "/", "M", "a", "w", "s", "o", "n">>,
    <<"A", "n", "t", "a", "r", "c", "t", "i", "c", "a", "/", "M", "c", "M", "u", "r", "d", "o">>,
    <<"A", "n", "t", "a", "r", "c", "t", "i", "c", "a", "/", "P", "a", "l", "m", "e", "r">>,
    <<"A", "n", "t", "a", "r", "c", "t", "i", "c", "a", "/", "R", "o", "t", "h", "e", "r", "a">>,
    <<"A", "n", "t", "a", "r", "c", "t", "i", "c", "a", "/", "S", "o", "u", "t", "h", "_", "P", "o", "l", "e">>,
    <<"A", "n", "t", "a", "r", "c", "t", "i", "c", "a", "/", "S", "y", "o", "w", "a">>,
    <<"A", "n", "t", "a", "r", "c", "t", "i", "c", "a", "/", "T", "r", "o", "l", "l">>,
    <<"A", "n", "t", "a", "r", "c", "t", "i", "c", "a", "/", "V", "o", "s", "t", "o", "k">>,
    <<"A", "r", "c", "t", "i", "c", "/", "L", "o", "n", "g", "y", "e", "a", "r", "b", "y", "e", "n">>,
    <<"A", "s", "i", "a", "/", "A", "d", "e", "n">>,
    <<"A", "s", "i", "a", "/", "A", "l", "m", "a", "t", "y">>,
    <<"A", "s", "i", "a", "/", "A", "m", "m", "a", "n">>,
    <<"A", "s", "i", "a", "/", "A", "n", "a", "d", "y", "r">>,
    <<"A", "s", "i", "a", "/", "A", "q", "t", "a", "u">>,
    <<"A", "s", "i", "a", "/", "A", "q", "t", "o", "b", "e">>,
    <<"A", "s", "i", "a", "/", "A", "s", "h", "g", "a", "b", "a", "t">>,
    <<"A", "s", "i", "a", "/", "A", "s", "h", "k", "h", "a", "b", "a", "d">>,
    <<"A", "s", "i", "a", "/", "A", "t", "y", "r", "a", "u">>,
    <<"A", "s", "i", "a", "/", "B", "a", "g", "h", "d", "a", "d">>,
    <<"A", "s", "i", "a", "/", "B", "a", "h", "r", "a", "i", "n">>,
    <<"A", "s", "i", "a", "/", "B", "a", "k", "u">>,
    <<"A", "s", "i", "a", "/", "B", "a", "n", "g", "k", "o", "k">>,
    <<"A", "s", "i", "a", "/", "B", "a", "r", "n", "a", "u", "l">>,
    <<"A", "s", "i", "a", "/", "B", "e", "i", "r", "u", "t">>,
    <<"A", "s", "i", "a", "/", "B", "i", "s", "h", "k", "e", "k">>,
    <<"A", "s", "i", "a", "/", "B", "r", "u", "n", "e", "i">>,
    <<"A", "s", "i", "a", "/", "C", "a", "l", "c", "u", "t", "t", "a">>,
    <<"A", "s", "i", "a", "/", "C", "h", "i", "t", "a">>,
    <<"A", "s", "i", "a", "/", "C", "h", "o", "i", "b", "a", "l", "s", "a", "n">>,
    <<"A", "s", "i", "a", "/", "C", "h", "o", "n", "g", "q", "i", "n", "g">>,
    <<"A", "s", "i", "a", "/", "C", "h", "u", "n", "g", "k", "i", "n", "g">>,
    <<"A", "s", "i", "a", "/", "C", "o", "l", "o", "m", "b", "o">>,
    <<"A", "s", "i", "a", "/", "D", "a", "c", "c", "a">>,
    <<"A", "s", "i", "a", "/", "D", "a", "m", "a", "s", "c", "u", "s">>,
    <<"A", "s", "i", "a", "/", "D", "h", "a", "k", "a">>,
    <<"A", "s", "i", "a", "/", "D", "i", "l", "i">>,
    <<"A", "s", "i", "a", "/", "D", "u", "b", "a", "i">>,
    <<"A", "s", "i", "a", "/", "D", "u", "s", "h", "a", "n", "b", "e">>,
    <<"A", "s", "i", "a", "/", "F", "a", "m", "a", "g", "u", "s", "t", "a">>,
    <<"A", "s", "i", "a", "/", "G", "a", "z", "a">>,
    <<"A", "s", "i", "a", "/", "H", "a", "r", "b", "i", "n">>,
    <<"A", "s", "i", "a", "/", "H", "e", "b", "r", "o", "n">>,
    <<"A", "s", "i", "a", "/", "H", "o", "_", "C", "h", "i", "_", "M", "i", "n", "h">>,
    <<"A", "s", "i", "a", "/", "H", "o", "n", "g", "_", "K", "o", "n", "g">>,
    <<"A", "s", "i", "a", "/", "H", "o", "v", "d">>,
    <<"A", "s", "i", "a", "/", "I", "r", "k", "u", "t", "s", "k">>,
    <<"A", "s", "i", "a", "/", "I", "s", "t", "a", "n", "b", "u", "l">>,
    <<"A", "s", "i", "a", "/", "J", "a", "k", "a", "r", "t", "a">>,
    <<"A", "s", "i", "a", "/", "J", "a", "y", "a", "p", "u", "r", "a">>,
    <<"A", "s", "i", "a", "/", "J", "e", "r", "u", "s", "a", "l", "e", "m">>,
    <<"A", "s", "i", "a", "/", "K", "a", "b", "u", "l">>,
    <<"A", "s", "i", "a", "/", "K", "a", "m", "c", "h", "a", "t", "k", "a">>,
    <<"A", "s", "i", "a", "/", "K", "a", "r", "a", "c", "h", "i">>,
    <<"A", "s", "i", "a", "/", "K", "a", "s", "h", "g", "a", "r">>,
    <<"A", "s", "i", "a", "/", "K", "a", "t", "h", "m", "a", "n", "d", "u">>,
    <<"A", "s", "i", "a", "/", "K", "a", "t", "m", "a", "n", "d", "u">>,
    <<"A", "s", "i", "a", "/", "K", "h", "a", "n", "d", "y", "g", "a">>,
    <<"A", "s", "i", "a", "/", "K", "o", "l", "k", "a", "t", "a">>,
    <<"A", "s", "i", "a", "/", "K", "r", "a", "s", "n", "o", "y", "a", "r", "s", "k">>,
    <<"A", "s", "i", "a", "/", "K", "u", "a", "l", "a", "_", "L", "u", "m", "p", "u", "r">>,
    <<"A", "s", "i", "a", "/", "K", "u", "c", "h", "i", "n", "g">>,
    <<"A", "s", "i", "a", "/", "K", "u", "w", "a", "i", "t">>,
    <<"A", "s", "i", "a", "/", "M", "a", "c", "a", "o">>,
    <<"A", "s", "i", "a", "/", "M", "a", "c", "a", "u">>,
    <<"A", "s", "i", "a", "/", "M", "a", "g", "a", "d", "a", "n">>,
    <<"A", "s", "i", "a", "/", "M", "a", "k", "a", "s", "s", "a", "r">>,
    <<"A", "s", "i", "a", "/", "M", "a", "n", "i", "l", "a">>,
    <<"A", "s", "i", "a", "/", "M", "u", "s", "c", "a", "t">>,
    <<"A", "s", "i", "a", "/", "N", "i", "c", "o", "s", "i", "a">>,
    <<"A", "s", "i", "a", "/", "N", "o", "v", "o", "k", "u", "z", "n", "e", "t", "s", "k">>,
    <<"A", "s", "i", "a", "/", "N", "o", "v", "o", "s", "i", "b", "i", "r", "s", "k">>,
    <<"A", "s", "i", "a", "/", "O", "m", "s", "k">>,
    <<"A", "s", "i", "a", "/", "O", "r", "a", "l">>,
    <<"A", "s", "i", "a", "/", "P", "h", "n", "o", "m", "_", "P", "e", "n", "h">>,
    <<"A", "s", "i", "a", "/", "P", "o", "n", "t", "i", "a", "n", "a", "k">>,
    <<"A", "s", "i", "a", "/", "P", "y", "o", "n", "g", "y", "a", "n", "g">>,
    <<"A", "s", "i", "a", "/", "Q", "a", "t", "a", "r">>,
    <<"A", "s", "i", "a", "/", "Q", "o", "s", "t", "a", "n", "a", "y">>,
    <<"A", "s", "i", "a", "/", "Q", "y", "z", "y", "l", "o", "r", "d", "a">>,
    <<"A", "s", "i", "a", "/", "R", "a", "n", "g", "o", "o", "n">>,
    <<"A", "s", "i", "a", "/", "R", "i", "y", "a", "d", "h">>,
    <<"A", "s", "i", "a", "/", "S", "a", "i", "g", "o", "n">>,
    <<"A", "s", "i", "a", "/", "S", "a", "k", "h", "a", "l", "i", "n">>,
    <<"A", "s", "i", "a", "/", "S", "a", "m", "a", "r", "k", "a", "n", "d">>,
    <<"A", "s", "i", "a", "/", "S", "e", "o", "u", "l">>,
    <<"A", "s", "i", "a", "/", "S", "h", "a", "n", "g", "h", "a", "i">>,
    <<"A", "s", "i", "a", "/", "S", "i", "n", "g", "a", "p", "o", "r", "e">>,
    <<"A", "s", "i", "a", "/", "S", "r", "e", "d", "n", "e", "k", "o", "l", "y", "m", "s", "k">>,
    <<"A", "s", "i", "a", "/", "T", "a", "i", "p", "e", "i">>,
    <<"A", "s", "i", "a", "/", "T", "a", "s", "h", "k", "e", "n", "t">>,
    <<"A", "s", "i", "a", "/", "T", "b", "i", "l", "i", "s", "i">>,
    <<"A", "s", "i", "a", "/", "T", "e", "h", "r", "a", "n">>,
    <<"A", "s", "i", "a", "/", "T", "e", "l", "_", "A", "v", "i", "v">>,
    <<"A", "s", "i", "a", "/", "T", "h", "i", "m", "b", "u">>,
    <<"A", "s", "i", "a", "/", "T", "h", "i", "m", "p", "h", "u">>,
    <<"A", "s", "i", "a", "/", "T", "o", "k", "y", "o">>,
    <<"A", "s", "i", "a", "/", "T", "o", "m", "s", "k">>,
    <<"A", "s", "i", "a", "/", "U", "j", "u", "n", "g", "_", "P", "a", "n", "d", "a", "n", "g">>,
    <<"A", "s", "i", "a", "/", "U", "l", "a", "a", "n", "b", "a", "a", "t", "a", "r">>,
    <<"A", "s", "i", "a", "/", "U", "l", "a", "n", "_", "B", "a", "t", "o", "r">>,
    <<"A", "s", "i", "a", "/", "U", "r", "u", "m", "q", "i">>,
    <<"A", "s", "i", "a", "/", "U", "s", "t", "-", "N", "e", "r", "a">>,
    <<"A", "s", "i", "a", "/", "V", "i", "e", "n", "t", "i", "a", "n", "e">>,
    <<"A", "s", "i", "a", "/", "V", "l", "a", "d", "i", "v", "o", "s", "t", "o", "k">>,
    <<"A", "s", "i", "a", "/", "Y", "a", "k", "u", "t", "s", "k">>,
    <<"A", "s", "i", "a", "/", "Y", "a", "n", "g", "o", "n">>,
    <<"A", "s", "i", "a", "/", "Y", "e", "k", "a", "t", "e", "r", "i", "n", "b", "u", "r", "g">>,
    <<"A", "s", "i", "a", "/", "Y", "e", "r", "e", "v", "a", "n">>,
    <<"A", "t", "l", "a", "n", "t", "i", "c", "/", "A", "z", "o", "r", "e", "s">>,
    <<"A", "t", "l", "a", "n", "t", "i", "c", "/", "B", "e", "r", "m", "u", "d", "a">>,
    <<"A", "t", "l", "a", "n", "t", "i", "c", "/", "C", "a", "n", "a", "r", "y">>,
    <<"A", "t", "l", "a", "n", "t", "i", "c", "/", "C", "a", "p", "e", "_", "V", "e", "r", "d", "e">>,
    <<"A", "t", "l", "a", "n", "t", "i", "c", "/", "F", "a", "e", "r", "o", "e">>,
    <<"A", "t", "l", "a", "n", "t", "i", "c", "/", "F", "a", "r", "o", "e">>,
    <<"A", "t", "l", "a", "n", "t", "i", "c", "/", "J", "a", "n", "_", "M", "a", "y", "e", "n">>,
    <<"A", "t", "l", "a", "n", "t", "i", "c", "/", "M", "a", "d", "e", "i", "r", "a">>,
    <<"A", "t", "l", "a", "n", "t", "i", "c", "/", "R", "e", "y", "k", "j", "a", "v", "i", "k">>,
    <<"A", "t", "l", "a", "n", "t", "i", "c", "/", "S", "o", "u", "t", "h", "_", "G", "e", "o", "r", "g", "i", "a">>,
    <<"A", "t", "l", "a", "n", "t", "i", "c", "/", "S", "t", "_", "H", "e", "l", "e", "n", "a">>,
    <<"A", "t", "l", "a", "n", "t", "i", "c", "/", "S", "t", "a", "n", "l", "e", "y">>,
    <<"A", "u", "s", "t", "r", "a", "l", "i", "a", "/", "A", "C", "T">>,
    <<"A", "u", "s", "t", "r", "a", "l", "i", "a", "/", "A", "d", "e", "l", "a", "i", "d", "e">>,
    <<"A", "u", "s", "t", "r", "a", "l", "i", "a", "/", "B", "r", "i", "s", "b", "a", "n", "e">>,
    <<"A", "u", "s", "t", "r", "a", "l", "i", "a", "/", "B", "r", "o", "k", "e", "n", "_", "H", "i", "l", "l">>,
    <<"A", "u", "s", "t", "r", "a", "l", "i", "a", "/", "C", "a", "n", "b", "e", "r", "r", "a">>,
    <<"A", "u", "s", "t", "r", "a", "l", "i", "a", "/", "C", "u", "r", "r", "i", "e">>,
    <<"A", "u", "s", "t", "r", "a", "l", "i", "a", "/", "D", "a", "r", "w", "i", "n">>,
    <<"A", "u", "s", "t", "r", "a", "l", "i", "a", "/", "E", "u", "c", "l", "a">>,
    <<"A", "u", "s", "t", "r", "a", "l", "i", "a", "/", "H", "o", "b", "a", "r", "t">>,
    <<"A", "u", "s", "t", "r", "a", "l", "i", "a", "/", "L", "H", "I">>,
    <<"A", "u", "s", "t", "r", "a", "l", "i", "a", "/", "L", "i", "n", "d", "e", "m", "a", "n">>,
    <<"A", "u", "s", "t", "r", "a", "l", "i", "a", "/", "L", "o", "r", "d", "_", "H", "o", "w", "e">>,
    <<"A", "u", "s", "t", "r", "a", "l", "i", "a", "/", "M", "e", "l", "b", "o", "u", "r", "n", "e">>,
    <<"A", "u", "s", "t", "r", "a", "l", "i", "a", "/", "N", "S", "W">>,
    <<"A", "u", "s", "t", "r", "a", "l", "i", "a", "/", "N", "o", "r", "t", "h">>,
    <<"A", "u", "s", "t", "r", "a", "l", "i", "a", "/", "P", "e", "r", "t", "h">>,
    <<"A", "u", "s", "t", "r", "a", "l", "i", "a", "/", "Q", "u", "e", "e", "n", "s", "l", "a", "n", "d">>,
    <<"A", "u", "s", "t", "r", "a", "l", "i", "a", "/", "S", "o", "u", "t", "h">>,
    <<"A", "u", "s", "t", "r", "a", "l", "i", "a", "/", "S", "y", "d", "n", "e", "y">>,
    <<"A", "u", "s", "t", "r", "a", "l", "i", "a", "/", "T", "a", "s", "m", "a", "n", "i", "a">>,
    <<"A", "u", "s", "t", "r", "a", "l", "i", "a", "/", "V", "i", "c", "t", "o", "r", "i", "a">>,
    <<"A", "u", "s", "t", "r", "a", "l", "i", "a", "/", "W", "e", "s", "t">>,
    <<"A", "u", "s", "t", "r", "a", "l", "i", "a", "/", "Y", "a", "n", "c", "o", "w", "i", "n", "n", "a">>,
    <<"B", "E", "T">>,
    <<"B", "S", "T">>,
    <<"B", "r", "a", "z", "i", "l", "/", "A", "c", "r", "e">>,
    <<"B", "r", "a", "z", "i", "l", "/", "D", "e", "N", "o", "r", "o", "n", "h", "a">>,
    <<"B", "r", "a", "z", "i", "l", "/", "E", "a", "s", "t">>,
    <<"B", "r", "a", "z", "i", "l", "/", "W", "e", "s", "t">>,
    <<"C", "A", "T">>,
    <<"C", "E", "T">>,
    <<"C", "N", "T">>,
    <<"C", "S", "T">>,
    <<"C", "S", "T", "6", "C", "D", "T">>,
    <<"C", "T", "T">>,
    <<"C", "a", "n", "a", "d", "a", "/", "A", "t", "l", "a", "n", "t", "i", "c">>,
    <<"C", "a", "n", "a", "d", "a", "/", "C", "e", "n", "t", "r", "a", "l">>,
    <<"C", "a", "n", "a", "d", "a", "/", "E", "a", "s", "t", "-", "S", "a", "s", "k", "a", "t", "c", "h", "e", "w", "a", "n">>,
    <<"C", "a", "n", "a", "d", "a", "/", "E", "a", "s", "t", "e", "r", "n">>,
    <<"C", "a", "n", "a", "d", "a", "/", "M", "o", "u", "n", "t", "a", "i", "n">>,
    <<"C", "a", "n", "a", "d", "a", "/", "N", "e", "w", "f", "o", "u", "n", "d", "l", "a", "n", "d">>,
    <<"C", "a", "n", "a", "d", "a", "/", "P", "a", "c", "i", "f", "i", "c">>,
    <<"C", "a", "n", "a", "d", "a", "/", "S", "a", "s", "k", "a", "t", "c", "h", "e", "w", "a", "n">>,
    <<"C", "a", "n", "a", "d", "a", "/", "Y", "u", "k", "o", "n">>,
    <<"C", "h", "i", "l", "e", "/", "C", "o", "n", "t", "i", "n", "e", "n", "t", "a", "l">>,
    <<"C", "h", "i", "l", "e", "/", "E", "a", "s", "t", "e", "r", "I", "s", "l", "a", "n", "d">>,
    <<"C", "u", "b", "a">>,
    <<"E", "A", "T">>,
    <<"E", "C", "T">>,
    <<"E", "E", "T">>,
    <<"E", "S", "T">>,
    <<"E", "S", "T", "5", "E", "D", "T">>,
    <<"E", "g", "y", "p", "t">>,
    <<"E", "i", "r", "e">>,
    <<"E", "t", "c", "/", "G", "M", "T">>,
    <<"E", "t", "c", "/", "G", "M", "T", "+", "0">>,
    <<"E", "t", "c", "/", "G", "M", "T", "+", "1">>,
    <<"E", "t", "c", "/", "G", "M", "T", "+", "1", "0">>,
    <<"E", "t", "c", "/", "G", "M", "T", "+", "1", "1">>,
    <<"E", "t", "c", "/", "G", "M", "T", "+", "1", "2">>,
    <<"E", "t", "c", "/", "G", "M", "T", "+", "2">>,
    <<"E", "t", "c", "/", "G", "M", "T", "+", "3">>,
    <<"E", "t", "c", "/", "G", "M", "T", "+", "4">>,
    <<"E", "t", "c", "/", "G", "M", "T", "+", "5">>,
    <<"E", "t", "c", "/", "G", "M", "T", "+", "6">>,
    <<"E", "t", "c", "/", "G", "M", "T", "+", "7">>,
    <<"E", "t", "c", "/", "G", "M", "T", "+", "8">>,
    <<"E", "t", "c", "/", "G", "M", "T", "+", "9">>,
    <<"E", "t", "c", "/", "G", "M", "T", "-", "0">>,
    <<"E", "t", "c", "/", "G", "M", "T", "-", "1">>,
    <<"E", "t", "c", "/", "G", "M", "T", "-", "1", "0">>,
    <<"E", "t", "c", "/", "G", "M", "T", "-", "1", "1">>,
    <<"E", "t", "c", "/", "G", "M", "T", "-", "1", "2">>,
    <<"E", "t", "c", "/", "G", "M", "T", "-", "1", "3">>,
    <<"E", "t", "c", "/", "G", "M", "T", "-", "1", "4">>,
    <<"E", "t", "c", "/", "G", "M", "T", "-", "2">>,
    <<"E", "t", "c", "/", "G", "M", "T", "-", "3">>,
    <<"E", "t", "c", "/", "G", "M", "T", "-", "4">>,
    <<"E", "t", "c", "/", "G", "M", "T", "-", "5">>,
    <<"E", "t", "c", "/", "G", "M", "T", "-", "6">>,
    <<"E", "t", "c", "/", "G", "M", "T", "-", "7">>,
    <<"E", "t", "c", "/", "G", "M", "T", "-", "8">>,
    <<"E", "t", "c", "/", "G", "M", "T", "-", "9">>,
    <<"E", "t", "c", "/", "G", "M", "T", "0">>,
    <<"E", "t", "c", "/", "G", "r", "e", "e", "n", "w", "i", "c", "h">>,
    <<"E", "t", "c", "/", "U", "C", "T">>,
    <<"E", "t", "c", "/", "U", "T", "C">>,
    <<"E", "t", "c", "/", "U", "n", "i", "v", "e", "r", "s", "a", "l">>,
    <<"E", "t", "c", "/", "Z", "u", "l", "u">>,
    <<"E", "u", "r", "o", "p", "e", "/", "A", "m", "s", "t", "e", "r", "d", "a", "m">>,
    <<"E", "u", "r", "o", "p", "e", "/", "A", "n", "d", "o", "r", "r", "a">>,
    <<"E", "u", "r", "o", "p", "e", "/", "A", "s", "t", "r", "a", "k", "h", "a", "n">>,
    <<"E", "u", "r", "o", "p", "e", "/", "A", "t", "h", "e", "n", "s">>,
    <<"E", "u", "r", "o", "p", "e", "/", "B", "e", "l", "f", "a", "s", "t">>,
    <<"E", "u", "r", "o", "p", "e", "/", "B", "e", "l", "g", "r", "a", "d", "e">>,
    <<"E", "u", "r", "o", "p", "e", "/", "B", "e", "r", "l", "i", "n">>,
    <<"E", "u", "r", "o", "p", "e", "/", "B", "r", "a", "t", "i", "s", "l", "a", "v", "a">>,
    <<"E", "u", "r", "o", "p", "e", "/", "B", "r", "u", "s", "s", "e", "l", "s">>,
    <<"E", "u", "r", "o", "p", "e", "/", "B", "u", "c", "h", "a", "r", "e", "s", "t">>,
    <<"E", "u", "r", "o", "p", "e", "/", "B", "u", "d", "a", "p", "e", "s", "t">>,
    <<"E", "u", "r", "o", "p", "e", "/", "B", "u", "s", "i", "n", "g", "e", "n">>,
    <<"E", "u", "r", "o", "p", "e", "/", "C", "h", "i", "s", "i", "n", "a", "u">>,
    <<"E", "u", "r", "o", "p", "e", "/", "C", "o", "p", "e", "n", "h", "a", "g", "e", "n">>,
    <<"E", "u", "r", "o", "p", "e", "/", "D", "u", "b", "l", "i", "n">>,
    <<"E", "u", "r", "o", "p", "e", "/", "G", "i", "b", "r", "a", "l", "t", "a", "r">>,
    <<"E", "u", "r", "o", "p", "e", "/", "G", "u", "e", "r", "n", "s", "e", "y">>,
    <<"E", "u", "r", "o", "p", "e", "/", "H", "e", "l", "s", "i", "n", "k", "i">>,
    <<"E", "u", "r", "o", "p", "e", "/", "I", "s", "l", "e", "_", "o", "f", "_", "M", "a", "n">>,
    <<"E", "u", "r", "o", "p", "e", "/", "I", "s", "t", "a", "n", "b", "u", "l">>,
    <<"E", "u", "r", "o", "p", "e", "/", "J", "e", "r", "s", "e", "y">>,
    <<"E", "u", "r", "o", "p", "e", "/", "K", "a", "l", "i", "n", "i", "n", "g", "r", "a", "d">>,
    <<"E", "u", "r", "o", "p", "e", "/", "K", "i", "e", "v">>,
    <<"E", "u", "r", "o", "p", "e", "/", "K", "i", "r", "o", "v">>,
    <<"E", "u", "r", "o", "p", "e", "/", "K", "y", "i", "v">>,
    <<"E", "u", "r", "o", "p", "e", "/", "L", "i", "s", "b", "o", "n">>,
    <<"E", "u", "r", "o", "p", "e", "/", "L", "j", "u", "b", "l", "j", "a", "n", "a">>,
    <<"E", "u", "r", "o", "p", "e", "/", "L", "o", "n", "d", "o", "n">>,
    <<"E", "u", "r", "o", "p", "e", "/", "L", "u", "x", "e", "m", "b", "o", "u", "r", "g">>,
    <<"E", "u", "r", "o", "p", "e", "/", "M", "a", "d", "r", "i", "d">>,
    <<"E", "u", "r", "o", "p", "e", "/", "M", "a", "l", "t", "a">>,
    <<"E", "u", "r", "o", "p", "e", "/", "M", "a", "r", "i", "e", "h", "a", "m", "n">>,
    <<"E", "u", "r", "o", "p", "e", "/", "M", "i", "n", "s", "k">>,
    <<"E", "u", "r", "o", "p", "e", "/", "M", "o", "n", "a", "c", "o">>,
    <<"E", "u", "r", "o", "p", "e", "/", "M", "o", "s", "c", "o", "w">>,
    <<"E", "u", "r", "o", "p", "e", "/", "N", "i", "c", "o", "s", "i", "a">>,
    <<"E", "u", "r", "o", "p", "e", "/", "O", "s", "l", "o">>,
    <<"E", "u", "r", "o", "p", "e", "/", "P", "a", "r", "i", "s">>,
    <<"E", "u", "r", "o", "p", "e", "/", "P", "o", "d", "g", "o", "r", "i", "c", "a">>,
    <<"E", "u", "r", "o", "p", "e", "/", "P", "r", "a", "g", "u", "e">>,
    <<"E", "u", "r", "o", "p", "e", "/", "R", "i", "g", "a">>,
    <<"E", "u", "r", "o", "p", "e", "/", "R", "o", "m", "e">>,
    <<"E", "u", "r", "o", "p", "e", "/", "S", "a", "m", "a", "r", "a">>,
    <<"E", "u", "r", "o", "p", "e", "/", "S", "a", "n", "_", "M", "a", "r", "i", "n", "o">>,
    <<"E", "u", "r", "o", "p", "e", "/", "S", "a", "r", "a", "j", "e", "v", "o">>,
    <<"E", "u", "r", "o", "p", "e", "/", "S", "a", "r", "a", "t", "o", "v">>,
    <<"E", "u", "r", "o", "p", "e", "/", "S", "i", "m", "f", "e", "r", "o", "p", "o", "l">>,
    <<"E", "u", "r", "o", "p", "e", "/", "S", "k", "o", "p", "j", "e">>,
    <<"E", "u", "r", "o", "p", "e", "/", "S", "o", "f", "i", "a">>,
    <<"E", "u", "r", "o", "p", "e", "/", "S", "t", "o", "c", "k", "h", "o", "l", "m">>,
    <<"E", "u", "r", "o", "p", "e", "/", "T", "a", "l", "l", "i", "n", "n">>,
    <<"E", "u", "r", "o", "p", "e", "/", "T", "i", "r", "a", "n", "e">>,
    <<"E", "u", "r", "o", "p", "e", "/", "T", "i", "r", "a", "s", "p", "o", "l">>,
    <<"E", "u", "r", "o", "p", "e", "/", "U", "l", "y", "a", "n", "o", "v", "s", "k">>,
    <<"E", "u", "r", "o", "p", "e", "/", "U", "z", "h", "g", "o", "r", "o", "d">>,
    <<"E", "u", "r", "o", "p", "e", "/", "V", "a", "d", "u", "z">>,
    <<"E", "u", "r", "o", "p", "e", "/", "V", "a", "t", "i", "c", "a", "n">>,
    <<"E", "u", "r", "o", "p", "e", "/", "V", "i", "e", "n", "n", "a">>,
    <<"E", "u", "r", "o", "p", "e", "/", "V", "i", "l", "n", "i", "u", "s">>,
    <<"E", "u", "r", "o", "p", "e", "/", "V", "o", "l", "g", "o", "g", "r", "a", "d">>,
    <<"E", "u", "r", "o", "p", "e", "/", "W", "a", "r", "s", "a", "w">>,
    <<"E", "u", "r", "o", "p", "e", "/", "Z", "a", "g", "r", "e", "b">>,
    <<"E", "u", "r", "o", "p", "e", "/", "Z", "a", "p", "o", "r", "o", "z", "h", "y", "e">>,
    <<"E", "u", "r", "o", "p", "e", "/", "Z", "u", "r", "i", "c", "h">>,
    <<"G", "B">>,
    <<"G", "B", "-", "E", "i", "r", "e">>,
    <<"G", "M", "T">>,
    <<"G", "M", "T", "+", "0">>,
    <<"G", "M", "T", "-", "0">>,
    <<"G", "M", "T", "0">>,
    <<"G", "r", "e", "e", "n", "w", "i", "c", "h">>,
    <<"H", "S", "T">>,
    <<"H", "o", "n", "g", "k", "o", "n", "g">>,
    <<"I", "E", "T">>,
    <<"I", "S", "T">>,
    <<"I", "c", "e", "l", "a", "n", "d">>,
    <<"I", "n", "d", "i", "a", "n", "/", "A", "n", "t", "a", "n", "a", "n", "a", "r", "i", "v", "o">>,
    <<"I", "n", "d", "i", "a", "n", "/", "C", "h", "a", "g", "o", "s">>,
    <<"I", "n", "d", "i", "a", "n", "/", "C", "h", "r", "i", "s", "t", "m", "a", "s">>,
    <<"I", "n", "d", "i", "a", "n", "/", "C", "o", "c", "o", "s">>,
    <<"I", "n", "d", "i", "a", "n", "/", "C", "o", "m", "o", "r", "o">>,
    <<"I", "n", "d", "i", "a", "n", "/", "K", "e", "r", "g", "u", "e", "l", "e", "n">>,
    <<"I", "n", "d", "i", "a", "n", "/", "M", "a", "h", "e">>,
    <<"I", "n", "d", "i", "a", "n", "/", "M", "a", "l", "d", "i", "v", "e", "s">>,
    <<"I", "n", "d", "i", "a", "n", "/", "M", "a", "u", "r", "i", "t", "i", "u", "s">>,
    <<"I", "n", "d", "i", "a", "n", "/", "M", "a", "y", "o", "t", "t", "e">>,
    <<"I", "n", "d", "i", "a", "n", "/", "R", "e", "u", "n", "i", "o", "n">>,
    <<"I", "r", "a", "n">>,
    <<"I", "s", "r", "a", "e", "l">>,
    <<"J", "S", "T">>,
    <<"J", "a", "m", "a", "i", "c", "a">>,
    <<"J", "a", "p", "a", "n">>,
    <<"K", "w", "a", "j", "a", "l", "e", "i", "n">>,
    <<"L", "i", "b", "y", "a">>,
    <<"M", "E", "T">>,
    <<"M", "I", "T">>,
    <<"M", "S", "T">>,
    <<"M", "S", "T", "7", "M", "D", "T">>,
    <<"M", "e", "x", "i", "c", "o", "/", "B", "a", "j", "a", "N", "o", "r", "t", "e">>,
    <<"M", "e", "x", "i", "c", "o", "/", "B", "a", "j", "a", "S", "u", "r">>,
    <<"M", "e", "x", "i", "c", "o", "/", "G", "e", "n", "e", "r", "a", "l">>,
    <<"N", "E", "T">>,
    <<"N", "S", "T">>,
    <<"N", "Z">>,
    <<"N", "Z", "-", "C", "H", "A", "T">>,
    <<"N", "a", "v", "a", "j", "o">>,
    <<"P", "L", "T">>,
    <<"P", "N", "T">>,
    <<"P", "R", "C">>,
    <<"P", "R", "T">>,
    <<"P", "S", "T">>,
    <<"P", "S", "T", "8", "P", "D", "T">>,
    <<"P", "a", "c", "i", "f", "i", "c", "/", "A", "p", "i", "a">>,
    <<"P", "a", "c", "i", "f", "i", "c", "/", "A", "u", "c", "k", "l", "a", "n", "d">>,
    <<"P", "a", "c", "i", "f", "i", "c", "/", "B", "o", "u", "g", "a", "i", "n", "v", "i", "l", "l", "e">>,
    <<"P", "a", "c", "i", "f", "i", "c", "/", "C", "h", "a", "t", "h", "a", "m">>,
    <<"P", "a", "c", "i", "f", "i", "c", "/", "C", "h", "u", "u", "k">>,
    <<"P", "a", "c", "i", "f", "i", "c", "/", "E", "a", "s", "t", "e", "r">>,
    <<"P", "a", "c", "i", "f", "i", "c", "/", "E", "f", "a", "t", "e">>,
    <<"P", "a", "c", "i", "f", "i", "c", "/", "E", "n", "d", "e", "r", "b", "u", "r", "y">>,
    <<"P", "a", "c", "i", "f", "i", "c", "/", "F", "a", "k", "a", "o", "f", "o">>,
    <<"P", "a", "c", "i", "f", "i", "c", "/", "F", "i", "j", "i">>,
    <<"P", "a", "c", "i", "f", "i", "c", "/", "F", "u", "n", "a", "f", "u", "t", "i">>,
    <<"P", "a", "c", "i", "f", "i", "c", "/", "G", "a", "l", "a", "p", "a", "g", "o", "s">>,
    <<"P", "a", "c", "i", "f", "i", "c", "/", "G", "a", "m", "b", "i", "e", "r">>,
    <<"P", "a", "c", "i", "f", "i", "c", "/", "G", "u", "a", "d", "a", "l", "c", "a", "n", "a", "l">>,
    <<"P", "a", "c", "i", "f", "i", "c", "/", "G", "u", "a", "m">>,
    <<"P", "a", "c", "i", "f", "i", "c", "/", "H", "o", "n", "o", "l", "u", "l", "u">>,
    <<"P", "a", "c", "i", "f", "i", "c", "/", "J", "o", "h", "n", "s", "t", "o", "n">>,
    <<"P", "a", "c", "i", "f", "i", "c", "/", "K", "a", "n", "t", "o", "n">>,
    <<"P", "a", "c", "i", "f", "i", "c", "/", "K", "i", "r", "i", "t", "i", "m", "a", "t", "i">>,
    <<"P", "a", "c", "i", "f", "i", "c", "/", "K", "o", "s", "r", "a", "e">>,
    <<"P", "a", "c", "i", "f", "i", "c", "/", "K", "w", "a", "j", "a", "l", "e", "i", "n">>,
    <<"P", "a", "c", "i", "f", "i", "c", "/", "M", "a", "j", "u", "r", "o">>,
    <<"P", "a", "c", "i", "f", "i", "c", "/", "M", "a", "r", "q", "u", "e", "s", "a", "s">>,
    <<"P", "a", "c", "i", "f", "i", "c", "/", "M", "i", "d", "w", "a", "y">>,
    <<"P", "a", "c", "i", "f", "i", "c", "/", "N", "a", "u", "r", "u">>,
    <<"P", "a", "c", "i", "f", "i", "c", "/", "N", "i", "u", "e">>,
    <<"P", "a", "c", "i", "f", "i", "c", "/", "N", "o", "r", "f", "o", "l", "k">>,
    <<"P", "a", "c", "i", "f", "i", "c", "/", "N", "o", "u", "m", "e", "a">>,
    <<"P", "a", "c", "i", "f", "i", "c", "/", "P", "a", "g", "o", "_", "P", "a", "g", "o">>,
    <<"P", "a", "c", "i", "f", "i", "c", "/", "P", "a", "l", "a", "u">>,
    <<"P", "a", "c", "i", "f", "i", "c", "/", "P", "i", "t", "c", "a", "i", "r", "n">>,
    <<"P", "a", "c", "i", "f", "i", "c", "/", "P", "o", "h", "n", "p", "e", "i">>,
    <<"P", "a", "c", "i", "f", "i", "c", "/", "P", "o", "n", "a", "p", "e">>,
    <<"P", "a", "c", "i", "f", "i", "c", "/", "P", "o", "r", "t", "_", "M", "o", "r", "e", "s", "b", "y">>,
    <<"P", "a", "c", "i", "f", "i", "c", "/", "R", "a", "r", "o", "t", "o", "n", "g", "a">>,
    <<"P", "a", "c", "i", "f", "i", "c", "/", "S", "a", "i", "p", "a", "n">>,
    <<"P", "a", "c", "i", "f", "i", "c", "/", "S", "a", "m", "o", "a">>,
    <<"P", "a", "c", "i", "f", "i", "c", "/", "T", "a", "h", "i", "t", "i">>,
    <<"P", "a", "c", "i", "f", "i", "c", "/", "T", "a", "r", "a", "w", "a">>,
    <<"P", "a", "c", "i", "f", "i", "c", "/", "T", "o", "n", "g", "a", "t", "a", "p", "u">>,
    <<"P", "a", "c", "i", "f", "i", "c", "/", "T", "r", "u", "k">>,
    <<"P", "a", "c", "i", "f", "i", "c", "/", "W", "a", "k", "e">>,
    <<"P", "a", "c", "i", "f", "i", "c", "/", "W", "a", "l", "l", "i", "s">>,
    <<"P", "a", "c", "i", "f", "i", "c", "/", "Y", "a", "p">>,
    <<"P", "o", "l", "a", "n", "d">>,
    <<"P", "o", "r", "t", "u", "g", "a", "l">>,
    <<"R", "O", "C">>,
    <<"R", "O", "K">>,
    <<"S", "S", "T">>,
    <<"S", "i", "n", "g", "a", "p", "o", "r", "e">>,
    <<"S", "y", "s", "t", "e", "m", "V", "/", "A", "S", "T", "4">>,
    <<"S", "y", "s", "t", "e", "m", "V", "/", "A", "S", "T", "4", "A", "D", "T">>,
    <<"S", "y", "s", "t", "e", "m", "V", "/", "C", "S", "T", "6">>,
    <<"S", "y", "s", "t", "e", "m", "V", "/", "C", "S", "T", "6", "C", "D", "T">>,
    <<"S", "y", "s", "t", "e", "m", "V", "/", "E", "S", "T", "5">>,
    <<"S", "y", "s", "t", "e", "m", "V", "/", "E", "S", "T", "5", "E", "D", "T">>,
    <<"S", "y", "s", "t", "e", "m", "V", "/", "H", "S", "T", "1", "0">>,
    <<"S", "y", "s", "t", "e", "m", "V", "/", "M", "S", "T", "7">>,
    <<"S", "y", "s", "t", "e", "m", "V", "/", "M", "S", "T", "7", "M", "D", "T">>,
    <<"S", "y", "s", "t", "e", "m", "V", "/", "P", "S", "T", "8">>,
    <<"S", "y", "s", "t", "e", "m", "V", "/", "P", "S", "T", "8", "P", "D", "T">>,
    <<"S", "y", "s", "t", "e", "m", "V", "/", "Y", "S", "T", "9">>,
    <<"S", "y", "s", "t", "e", "m", "V", "/", "Y", "S", "T", "9", "Y", "D", "T">>,
    <<"T", "u", "r", "k", "e", "y">>,
    <<"U", "C", "T">>,
    <<"U", "S", "/", "A", "l", "a", "s", "k", "a">>,
    <<"U", "S", "/", "A", "l", "e", "u", "t", "i", "a", "n">>,
    <<"U", "S", "/", "A", "r", "i", "z", "o", "n", "a">>,
    <<"U", "S", "/", "C", "e", "n", "t", "r", "a", "l">>,
    <<"U", "S", "/", "E", "a", "s", "t", "-", "I", "n", "d", "i", "a", "n", "a">>,
    <<"U", "S", "/", "E", "a", "s", "t", "e", "r", "n">>,
    <<"U", "S", "/", "H", "a", "w", "a", "i", "i">>,
    <<"U", "S", "/", "I", "n", "d", "i", "a", "n", "a", "-", "S", "t", "a", "r", "k", "e">>,
    <<"U", "S", "/", "M", "i", "c", "h", "i", "g", "a", "n">>,
    <<"U", "S", "/", "M", "o", "u", "n", "t", "a", "i", "n">>,
    <<"U", "S", "/", "P", "a", "c", "i", "f", "i", "c">>,
    <<"U", "S", "/", "P", "a", "c", "i", "f", "i", "c", "-", "N", "e", "w">>,
    <<"U", "S", "/", "S", "a", "m", "o", "a">>,
    <<"U", "T", "C">>,
    <<"U", "n", "i", "v", "e", "r", "s", "a", "l">>,
    <<"V", "S", "T">>,
    <<"W", "-", "S", "U">>,
    <<"W", "E", "T">>,
    <<"Z", "u", "l", "u">> }

\* Intl accepts s as a timeZone: a name of the database in any letter
\* case. An offset from UTC such as +05:30 is no name.
IsTimeZoneName(s) ==
  \E z \in TimeZoneNames :
    /\ Len(z) = Len(s)
    /\ \A k \in 1..Len(z) : Fold(z[k]) = Fold(s[k])

\* const utcTime = chart?.chart_data?.timezone_info?.utc_time
utcTime(chart) ==
  OptGet(OptGet(OptGet(chart, "chart_data"), "timezone_info"), "utc_time")

\* const timezone = chart?.chart_data?.timezone_info?.timezone || 'UTC'
timezone(chart) ==
  Or(OptGet(OptGet(OptGet(chart, "chart_data"), "timezone_info"), "timezone"), Str(UTC))

\* A Date object, of which the module keeps whether it is a valid date and
\* not its time value.
Date(value) == [t |-> "Date", valid |-> IsValidDate(value)]

\* const instant = utcTime ? new Date(utcTime) : new Date(chart.timestamp):
\* chart.timestamp is a TypeError on a chart that is null or undefined.
instant(chart) ==
  IF ~Truthy(utcTime(chart)) /\ Get(chart, "timestamp") = Thrown THEN Thrown
  ELSE Date(IF Truthy(utcTime(chart)) THEN utcTime(chart) ELSE Get(chart, "timestamp"))

\* The error that ends lines 6-8, Null when there is none: the TypeError
\* of line 6, the RangeError of instant.toISOString() on an invalid date
\* (line 7), the RangeError of instant.toLocaleString('en-US', { timeZone:
\* timezone }) on a timeZone that is no time zone name (line 8). The strings
\* asked_at_utc and asked_at_local themselves are not part of the module.
AskedAtError(chart) ==
  LET Format(date) ==
        IF date = Thrown THEN Thrown
        ELSE IF ~date.valid THEN RangeError
        ELSE IF ~IsTimeZoneName(toString(timezone(chart))) THEN RangeError
        ELSE Null
  IN Format(instant(chart))

(***************************************************************************)
(* cleanMoonText                                                           *)
(***************************************************************************)
\* The character U+263D (first quarter moon), which the module's character
\* set cannot write: one element of a string, like any other character.
Crescent == "U+263D"

\* The literal lit stands in s at 0-based index i (ignoring case when ci).
LitAt(s, i, lit, ci) ==
  /\ i + Len(lit) <= Len(s)
  /\ \A k \in 1..Len(lit) :
       IF ci THEN Fold(s[i + k]) = Fold(lit[k]) ELSE s[i + k] = lit[k]

Void == <<"V", "o", "i", "d">>

Moon == <<"M", "o", "o", "n">>

SpaceMoonColon == <<" ", "M", "o", "o", "n", ":">>

Makes == <<"m", "a", "k", "e", "s">>

\* /Void(?: X)? Moon:\s*(?:X\s*)?Moon/gi with X the crescent, tried at index
\* i: the index where the match ends, or -1.
VoidMoonEnd(s, i) ==
  IF ~LitAt(s, i, Void, TRUE) THEN -1
  ELSE LET p1 == IF LitAt(s, i + 4, <<" ", Crescent>>, TRUE) THEN i + 6 ELSE i + 4
       IN IF ~LitAt(s, p1, SpaceMoonColon, TRUE) THEN -1
          ELSE LET p2 == RunEnd(s, p1 + 6, "space")
                   p3 == IF LitAt(s, p2, <<Crescent>>, TRUE)
                         THEN RunEnd(s, p2 + 1, "space") ELSE p2
               IN IF LitAt(s, p3, Moon, TRUE) THEN p3 + 4 ELSE -1

\* /\s*\([^)]*moon[^)]*\)\s*$/gi tried at index i.
TrailingParenEnd(s, i) ==
  LET p == RunEnd(s, i, "space")
      q == RunEnd(s, p + 1, "notclose")
  IN IF /\ LitAt(s, p, <<"(">>, FALSE)
        /\ q < Len(s)
        /\ \E m \in (p + 1)..(q - 4) : LitAt(s, m, Moon, TRUE)
        /\ AtEnd(s, q + 1)
     THEN Len(s)
     ELSE -1

\* /:\s+makes/g tried at index i.
ColonMakesEnd(s, i) ==
  LET p == RunEnd(s, i + 1, "space")
  IN IF LitAt(s, i, <<":">>, FALSE) /\ p > i + 1 /\ LitAt(s, p, Makes, FALSE)
     THEN p + 5
     ELSE -1

\* The expressions of cleanMoonText, each tried at index i of s.
MatchEnd(re, s, i) ==
  CASE re = "VoidMoon" -> VoidMoonEnd(s, i)
    [] re = "CrescentMoon" ->
         IF LitAt(s, i, <<Crescent, " ">> \o Moon, FALSE) THEN i + 6 ELSE -1
    [] re = "MoonMoon" ->
         IF LitAt(s, i, Moon \o <<" ">> \o Moon, FALSE) THEN i + 9 ELSE -1
    [] re = "TrailingParen" -> TrailingParenEnd(s, i)
    [] re = "ColonMakes" -> ColonMakesEnd(s, i)
    [] re = "Spaces" -> IF RunEnd(s, i, "space") > i THEN RunEnd(s, i, "space") ELSE -1

RECURSIVE ReplaceFrom(_, _, _, _)
\* String.prototype.replace with a global expression, from index i on: the
\* matches are found left to right, each search starting where the last
\* match ended, and the replaced text is never searched again.
ReplaceFrom(s, i, re, rep) ==
  IF i >= Len(s) THEN <<>>
  ELSE LET e == MatchEnd(re, s, i)
       IN IF e > i THEN rep \o ReplaceFrom(s, e, re, rep)
          ELSE <<s[i + 1]>> \o ReplaceFrom(s, i + 1, re, rep)

replace(s, re, rep) == ReplaceFrom(s, 0, re, rep)

cleanMoonText(text) ==
  IF ~Truthy(text) \/ typeof(text) # "string" THEN text
  ELSE Str(trim(
         replace(
           replace(
             replace(
               replace(
                 replace(
                   replace(text.s, "VoidMoon", Void \o SpaceMoonColon),
                   "CrescentMoon", Moon),
                 "MoonMoon", Moon),
               "TrailingParen", <<>>),
             "ColonMakes", <<":", " ">> \o Makes),
           "Spaces", <<" ">>)))

(***************************************************************************)
(* Chart records                                                           *)
(***************************************************************************)
\* The most location sources one chart record carries.
MaxSources == 2

\* obj with property k set to v
SetIn(obj, k, v) ==
  Obj([x \in (DOMAIN obj.f) \cup {k} |-> IF x = k THEN v ELSE obj.f[x]])

\* obj.k, or a fresh object when obj has no such property
Sub(obj, k) == IF HasField(obj, k) THEN obj.f[k] ELSE Obj(NoFields)

\* The places of a chart record that buildChartPayload reads for the asking
\* time, the time zone, the location and the rationale, those of
\* getLocationData in the order in which it reads them; "chart_data" and
\* "timezone_info" stand for that sub-record being null.
Sources ==
  << "chart_data", "cd.location", "timezone_info", "tz.location",
     "tz.location_name", "tz.coordinates", "tz.timezone", "tz.utc_time",
     "location_name", "location", "rationale", "reasoning" >>

Leaf(src) ==
  CASE src = "tz.location" -> "location"
    [] src = "tz.location_name" -> "location_name"
    [] src = "tz.coordinates" -> "coordinates"
    [] src = "tz.timezone" -> "timezone"
    [] src = "tz.utc_time" -> "utc_time"
    [] src = "cd.location" -> "location"
    [] OTHER -> src

InTimezoneInfo(src) ==
  src \in {"tz.location", "tz.location_name", "tz.coordinates", "tz.timezone",
           "tz.utc_time"}

InChartData(src) == src \in {"cd.location", "timezone_info"} \/ InTimezoneInfo(src)

\* What the chart holds at a source: undefined when it is not populated.
SourceValue(chart, src) ==
  IF src = "chart_data"
  THEN (IF Get(chart, "chart_data") = Null THEN Null ELSE Undefined)
  ELSE IF src = "timezone_info"
  THEN (IF TimezoneInfo(chart) = Null THEN Null ELSE Undefined)
  ELSE IF InTimezoneInfo(src) THEN OptGet(TimezoneInfo(chart), Leaf(src))
  ELSE IF src = "cd.location" THEN CdLocation(chart)
  ELSE Get(chart, src)

Populated(chart) == {i \in 1..Len(Sources) : SourceValue(chart, Sources[i]) # Undefined}

\* The chart with source src holding v.
PutSource(chart, src, v) ==
  LET cd == Sub(chart, "chart_data")
      tzi == Sub(cd, "timezone_info")
  IN IF InTimezoneInfo(src)
     THEN SetIn(chart, "chart_data", SetIn(cd, "timezone_info", SetIn(tzi, Leaf(src), v)))
     ELSE IF InChartData(src)
     THEN SetIn(chart, "chart_data", SetIn(cd, Leaf(src), v))
     ELSE SetIn(chart, src, v)

\* The chart without source src.
DropIn(obj, k) == Obj([x \in (DOMAIN obj.f) \ {k} |-> obj.f[x]])

DropSource(chart, src) ==
  LET cd == Sub(chart, "chart_data")
      tzi == Sub(cd, "timezone_info")
  IN IF SourceValue(chart, src) = Undefined THEN chart
     ELSE IF src = "chart_data" THEN DropIn(chart, "chart_data")
     ELSE IF InTimezoneInfo(src)
     THEN SetIn(chart, "chart_data", SetIn(cd, "timezone_info", DropIn(tzi, Leaf(src))))
     ELSE IF InChartData(src)
     THEN SetIn(chart, "chart_data", DropIn(cd, Leaf(src)))
     ELSE DropIn(chart, src)

Paris == [city |-> Str(<<"P", "a", "r", "i", "s">>), country |-> Str(<<"F", "r", "a", "n", "c", "e">>),
          lat |-> Num(4885, 100), lon |-> Num(235, 100)]

\* chart.timestamp: epoch milliseconds.
TimestampValues == { Zero }

\* The values a source is given: what the branches of the code tell apart.
Values(src) ==
  CASE src = "chart_data" -> {Null}
    [] src = "cd.location" ->
         { Obj([city |-> Str(<<"B", "e", "r", "l", "i", "n">>), country |-> Str(<<"G", "e", "r", "m", "a", "n", "y">>),
           latitude |-> Num(5252, 100), longitude |-> Num(134, 10)]),
           Obj([city |-> Str(<<"B", "e", "r", "l", "i", "n">>)]),
           Obj([city |-> Str(Unknown), country |-> Str(<<"G", "e", "r", "m", "a", "n", "y">>),
           latitude |-> Num(5252, 100), longitude |-> Num(134, 10)]),
           Obj([country |-> Str(<<"G", "e", "r", "m", "a", "n", "y">>), lat |-> Num(5252, 100), lon |-> Num(134, 10)]),
           Obj([city |-> Str(<<"B", "e", "r", "l", "i", "n">>), latitude |-> Zero, lat |-> Num(5252, 100),
           longitude |-> Zero, lon |-> Num(134, 10)]),
           Obj([city |-> Str(<<"B", "e", "r", "l", "i", "n">>), country |-> Str(<<>>), latitude |-> Num(5252, 100),
           lat |-> Num(1, 1), longitude |-> Num(134, 10), lon |-> Num(1, 1)]),
           Null }
    [] src = "timezone_info" -> {Null}
    [] src = "tz.location" ->
         { Obj([name |-> Str(<<"R", "o", "m", "e">>), country |-> Str(<<"I", "t", "a", "l", "y">>),
           latitude |-> Num(419, 10), longitude |-> Num(125, 10)]),
           Obj([city |-> Str(<<"R", "o", "m", "e">>), name |-> Str(<<"M", "i", "l", "a", "n">>), lat |-> Num(419, 10), lon |-> Num(125, 10)]),
           Obj([latitude |-> Zero, lat |-> Num(419, 10), longitude |-> Zero, lon |-> Num(125, 10)]),
           Obj(NoFields),
           Arr(<<>>),
           Str(<<"R", "o", "m", "e", ",", " ", "I", "t", "a", "l", "y">>),
           Null }
    [] src = "tz.location_name" ->
         { Str(<<"L", "y", "o", "n", ",", " ", "F", "r", "a", "n", "c", "e">>), Str(<<"L", "y", "o", "n">>), Str(<<" ", ",", " ", "F", "r", "a", "n", "c", "e">>), Str(<<>>), Str(Unknown), Str(UnknownLocation),
           Num(42, 1), Arr(<<Str(<<"L", "y", "o", "n">>)>>), Null }
    [] src = "tz.coordinates" ->
         { Obj([latitude |-> Num(4575, 100), longitude |-> Num(485, 100)]),
           Obj([latitude |-> Num(4575, 100)]),
           Null }
    [] src = "tz.timezone" ->
         { Str(<<"A", "m", "e", "r", "i", "c", "a", "/", "N", "e", "w", "_", "Y", "o", "r", "k">>),
           Str(<<"A", "m", "e", "r", "i", "c", "a", "/", "P", "o", "r", "t", "_", "o", "f", "_", "S", "p", "a", "i", "n">>),
           Str(<<"A", "m", "e", "r", "i", "c", "a", "/", "I", "n", "d", "i", "a", "n", "a", "/", "K", "n", "o", "x">>), Str(<<"a", "m", "e", "r", "i", "c", "a", "/", "n", "e", "w", "_", "y", "o", "r", "k">>), Str(<<"E", "t", "c", "/", "G", "M", "T", "+", "5">>), Str(<<"A", "s", "i", "a", "/", "K", "o", "l", "k", "a", "t", "a">>),
           Str(<<"A", "m", "e", "r", "i", "c", "a", "/">>), Str(<<"/", "F", "o", "o">>), Str(<<"E", "u", "r", "o", "p", "e">>),
           Str(UTC), Str(<<>>), Null,
           Arr(<<Str(<<"A", "m", "e", "r", "i", "c", "a", "/", "N", "e", "w", "_", "Y", "o", "r", "k">>)>>), Arr(<<Str(UTC)>>),
           Arr(<<Str(<<"/">>)>>), Num(42, 1) }
    [] src = "tz.utc_time" ->
         { Str(<<"2", "0", "2", "4", "-", "0", "1", "-", "0", "1", "T", "0", "0", ":", "0", "0", ":", "0", "0", "Z">>),
           Str(<<"2", "0", "2", "4", "-", "0", "1", "-", "0", "1", "T", "0", "0", ":", "0", "0", ":", "0", "0", ".", "1", "2", "3", "4", "5", "6", "+", "0", "0", ":", "0", "0">>),
           Str(<<"2", "0", "2", "4", "-", "0", "1", "-", "0", "1", "T", "2", "5", ":", "0", "0", ":", "0", "0">>),
           Str(<<"s", "o", "o", "n">>) }
    [] src = "location_name" ->
         { Str(<<"O", "s", "l", "o", ",", " ", "N", "o", "r", "w", "a", "y">>), Str(<<"O", "s", "l", "o">>), Str(<<",">>), Str(Unknown), Str(UnknownLocation),
           Num(42, 1), Obj(NoFields), Null }
    [] src = "location" ->
         { Obj(Paris),
           Obj([city |-> Str(<<"C", "a", "i", "r", "o">>), latitude |-> Zero, lat |-> Num(3005, 100),
           longitude |-> Zero, lon |-> Num(3125, 100)]),
           Obj(NoFields),
           Arr(<<>>),
           Str(<<"C", "a", "i", "r", "o", ",", "U+00A0", "E", "g", "y", "p", "t">>), Str(<<"C", "a", "i", "r", "o">>), Str(<<>>), Str(Unknown), Str(UnknownLocation),
           Num(42, 1), Null }
    [] src = "rationale" ->
         { Arr(<<Str(<<"M", "o", "o", "n", " ", "M", "o", "o", "n", " ", "a", "p", "p", "l", "y", "i", "n", "g", " ", "(", "m", "o", "o", "n", ")">>)>>),
           Arr(<<Str(<<"d", "i", "g", "n", "i", "t", "y">>), Num(7, 1)>>),
           Str(<<"M", "o", "o", "n">>),
           Arr(<<>>) }
    [] src = "reasoning" ->
         { Arr(<<Str(<<"S", "u", "n", " ", "i", "n", " ", "d", "i", "g", "n", "i", "t", "y">>), Str(<<"a">>)>>),
           Arr(<<Arr(<<Str(<<"M", "o", "o", "n">>)>>)>>),
           Arr(<<Null>>) }

InitLoc ==
  /\ \/ chartIn \in {Undefined, Null}
     \/ \E ts \in TimestampValues \cup {Undefined} :
          chartIn = IF ts = Undefined THEN Obj(NoFields) ELSE Obj([timestamp |-> ts])
  /\ resolved = NotCalled
  /\ payload = NotCalled
  /\ ParseIdle
  /\ CleanIdle

\* The caller fills in one more source of the record, later sources after
\* earlier ones; nothing can be put under a sub-record that is null.
Populate ==
  /\ payload = NotCalled
  /\ chartIn.t = "object"
  /\ LET pop == Populated(chartIn)
     IN /\ Cardinality(pop) < MaxSources
        /\ \E i \in 1..Len(Sources) :
             /\ \A j \in pop : j < i
             /\ InChartData(Sources[i]) => Get(chartIn, "chart_data") # Null
             /\ InTimezoneInfo(Sources[i]) => TimezoneInfo(chartIn) # Null
             /\ \E v \in Values(Sources[i]) : chartIn' = PutSource(chartIn, Sources[i], v)
  /\ UNCHANGED <<reasoning, parsed, resolved, payload, rationale, cleaned, prev, passes>>

\* const rationaleList = chart.rationale || chart.reasoning || []
rationaleList(chart) ==
  Or(Or(Get(chart, "rationale"), Get(chart, "reasoning")), Arr(<<>>))

\* r.includes(text): of a string or of an array; a TypeError on anything else.
includes(r, text) ==
  CASE r.t = "string" -> Bool(\E i \in 0..Len(r.s) : LitAt(r.s, i, text, FALSE))
    [] r.t = "array" -> Bool(\E k \in 1..Len(r.a) : r.a[k] = Str(text))
    [] OTHER -> Thrown

\* r.includes('perfection') || ... || r.includes('applying')
IsKeyTestimony(r) ==
  LET KeyWords == << <<"p", "e", "r", "f", "e", "c", "t", "i", "o", "n">>,
                     <<"r", "e", "c", "e", "p", "t", "i", "o", "n">>,
                     <<"M", "o", "o", "n">>,
                     <<"d", "i", "g", "n", "i", "t", "y">>,
                     <<"a", "p", "p", "l", "y", "i", "n", "g">> >>
  IN IF includes(r, KeyWords[1]) = Thrown THEN Thrown
     ELSE Bool(\E k \in 1..Len(KeyWords) : includes(r, KeyWords[k]) = Bool(TRUE))

RECURSIVE filter(_)
\* The entries of a list that are key testimonies.
filter(a) ==
  IF a = <<>> THEN <<>>
  ELSE (IF IsKeyTestimony(a[1]) = Bool(TRUE) THEN <<a[1]>> ELSE <<>>) \o filter(Tail(a))

\* list.filter(IsKeyTestimony).slice(0, 5).map(r => bullet + cleanMoonText(r))
\* of lines 119-122: a TypeError when list has no filter method or an entry
\* has no includes method. Bullet is the bullet as the source file holds it,
\* and the space after it.
keyTestimonies(list) ==
  IF list.t # "array" THEN Thrown
  ELSE IF \E k \in 1..Len(list.a) : IsKeyTestimony(list.a[k]) = Thrown THEN Thrown
  ELSE LET Bullet == <<"U+00E2", "U+20AC", "U+00A2", " ">>
           slice5(kept) == SubSeq(kept, 1, IF Len(kept) > 5 THEN 5 ELSE Len(kept))
           map(five) ==
             Arr([k \in 1..Len(five) |-> Str(Bullet \o toString(cleanMoonText(five[k])))])
       IN map(slice5(filter(list.a)))

RECURSIVE JoinLines(_)
\* keyTestimonies.join('\n')
JoinLines(a) ==
  IF a = <<>> THEN <<>>
  ELSE IF Len(a) = 1 THEN a[1].s
  ELSE a[1].s \o <<"\n">> \o JoinLines(Tail(a))

\* The payload of lines 95-116, without asked_at_local and asked_at_utc,
\* whose text is not part of the module. A property the payload does not
\* have is undefined here. first is chart.tags?.[0], ledgerEntries is
\* chart.ledger || null (line 93).
Payload(chart, location) ==
  LET tags == Get(chart, "tags")
      first == CASE tags.t = "array" -> IF tags.a = <<>> THEN Undefined ELSE tags.a[1]
                 [] tags.t = "string" -> IF tags.s = <<>> THEN Undefined ELSE Str(<<tags.s[1]>>)
                 [] tags.t = "object" -> IF HasField(tags, "0") THEN tags.f["0"] ELSE Undefined
                 [] OTHER -> Undefined
      ledgerEntries == Or(Get(chart, "ledger"), Null)
  IN
  [t |-> "payload",
   id |-> Get(chart, "id"),
   question |-> Get(chart, "question"),
   category |-> Or(first, Str(<<"g", "e", "n", "e", "r", "a", "l">>)),
   tz |-> timezone(chart),
   location |-> location,
   house_system |-> Str(<<"R", "e", "g", "i", "o", "m", "o", "n", "t", "a", "n", "u", "s">>),
   houses |-> Or(OptGet(Get(chart, "chart_data"), "houses"), Obj(NoFields)),
   rulers |-> Or(OptGet(Get(chart, "chart_data"), "rulers"), Obj(NoFields)),
   aspects |-> Or(OptGet(Get(chart, "chart_data"), "aspects"), Arr(<<>>)),
   planets |-> Or(OptGet(Get(chart, "chart_data"), "planets"), Obj(NoFields)),
   traditional_factors |-> Or(Get(chart, "traditional_factors"), Obj(NoFields)),
   solar_factors |-> Or(Get(chart, "solar_factors"), Obj(NoFields)),
   reasoning |-> Or(ledgerEntries, rationaleList(chart)),
   ledger |-> IF Truthy(ledgerEntries) THEN ledgerEntries ELSE Undefined,
   verdict |-> Undefined,
   key_testimonies |-> Undefined,
   keyTestimoniesText |-> Undefined]

\* The payload with the verdict of lines 118-132.
WithVerdict(chart, built) ==
  LET Verdict(key, list) ==
        IF key = Thrown THEN Thrown
        ELSE [built EXCEPT
                !.verdict =
                  Obj([label |-> Get(chart, "judgment"),
                       confidence |-> Get(chart, "confidence"),
                       rationale |->
                         Arr([k \in 1..Len(list.a) |-> cleanMoonText(list.a[k])])]),
                !.key_testimonies = key,
                !.keyTestimoniesText = Str(JoinLines(key.a))]
  IN Verdict(keyTestimonies(rationaleList(chart)), rationaleList(chart))

\* One call buildChartPayload(chart, includeVerdict): lines 6-8 may raise,
\* and only past them does line 103 call getLocationData(), whose TypeError
\* escapes the call; with includeVerdict the rationale is filtered and
\* cleaned, which raises a TypeError on a rationale that is no list of texts.
buildChartPayload ==
  /\ payload = NotCalled
  /\ \E includeVerdict \in BOOLEAN, error \in {AskedAtError(chartIn)} :
       IF error # Null
       THEN /\ payload' = error
            /\ resolved' = resolved
       ELSE LET location == getLocationData(chartIn)
            IN /\ resolved' = location
               /\ payload' = IF location = Thrown THEN Thrown
                             ELSE IF includeVerdict
                             THEN WithVerdict(chartIn, Payload(chartIn, location))
                             ELSE Payload(chartIn, location)
  /\ UNCHANGED <<reasoning, parsed, chartIn, rationale, cleaned, prev, passes>>

NextLoc == Populate \/ buildChartPayload

SpecLoc == InitLoc /\ [][NextLoc]_vars

(***************************************************************************)
(* Claims about getLocationData                                            *)
(***************************************************************************)
Resolved == resolved # NotCalled

Returned == Resolved /\ resolved # Thrown

IsNonEmptyString(v) == v.t = "string" /\ v.s # <<>>

IsNumber(v) == v.t = "number"

\* C4: whatever sources are present, absent, null or empty, the record that
\* getLocationData returns has a non-empty string city and country and a
\* numeric lat and lon.
C4_FullyPopulated ==
  Returned =>
    /\ IsNonEmptyString(resolved.city)
    /\ IsNonEmptyString(resolved.country)
    /\ IsNumber(resolved.lat)
    /\ IsNumber(resolved.lon)

\* C5: getLocationData never throws, also when location_name, location or
\* timezone hold a truthy value that is not a string.
C5_NeverThrows == Resolved => resolved # Thrown

\* The branch whose guard is the first to succeed (7 also when the guard of
\* the timezone branch is the one that raises), 8 when none does.
Winner(chart) ==
  CASE Guard1(chart) -> 1
    [] ~Guard1(chart) /\ Guard2(chart) -> 2
    [] ~Guard1(chart) /\ ~Guard2(chart) /\ Guard3(chart) -> 3
    [] ~Guard1(chart) /\ ~Guard2(chart) /\ ~Guard3(chart) /\ Guard4(chart) -> 4
    [] ~Guard1(chart) /\ ~Guard2(chart) /\ ~Guard3(chart) /\ ~Guard4(chart)
         /\ Guard5(chart) -> 5
    [] ~Guard1(chart) /\ ~Guard2(chart) /\ ~Guard3(chart) /\ ~Guard4(chart)
         /\ ~Guard5(chart) /\ Guard6(chart) -> 6
    [] OTHER -> IF Guard7(chart) = Bool(FALSE) THEN 8 ELSE 7

\* The sources a step of the chain is specified to read.
Reads(k) ==
  CASE k = 1 -> {"cd.location"}
    [] k = 2 -> {"tz.location"}
    [] k = 3 -> {"tz.location_name", "tz.coordinates"}
    [] k = 4 -> {"location_name", "tz.coordinates"}
    [] k = 5 -> {"location"}
    [] k = 6 -> {"location"}
    [] k = 7 -> {"tz.timezone"}
    [] OTHER -> {}

RECURSIVE DropFrom(_, _, _)
\* The chart without the sources numbered i and above that are not in keep.
DropFrom(chart, keep, i) ==
  IF i > Len(Sources) THEN chart
  ELSE DropFrom(IF Sources[i] \in keep THEN chart ELSE DropSource(chart, Sources[i]),
                keep, i + 1)

\* The chart with nothing but the sources in keep.
Only(chart, keep) == DropFrom(chart, keep, 1)

ReturnOf(k, chart) ==
  CASE k = 1 -> Return1(chart)
    [] k = 2 -> Return2(chart)
    [] k = 3 -> Return3(chart)
    [] k = 4 -> Return4(chart)
    [] k = 5 -> Return5(chart)
    [] k = 6 -> Return6(chart)
    [] k = 7 -> Return7(chart)
    [] OTHER -> Return8

SatisfiedGuards(chart) ==
  {k \in 1..7 : CASE k = 1 -> Guard1(chart) [] k = 2 -> Guard2(chart)
                  [] k = 3 -> Guard3(chart) [] k = 4 -> Guard4(chart)
                  [] k = 5 -> Guard5(chart) [] k = 6 -> Guard6(chart)
                  [] k = 7 -> Guard7(chart) = Bool(TRUE)}

\* C6: the result is the return of the earliest source whose guard holds, in
\* the order 1..8, and is what the function gives for the record stripped of
\* every other source: a later source, and an earlier source whose guard
\* fails, contribute no field.
C6_FallbackOrder ==
  Resolved =>
    /\ resolved = ReturnOf(Winner(chartIn), chartIn)
    /\ resolved = getLocationData(Only(chartIn, Reads(Winner(chartIn))))

\* C6 witness: the guards of the top-level location_name and of the
\* top-level location object hold at once, and the result is the one of
\* location_name, with nothing of the location object in it.
C6_Witness ==
  /\ Resolved
  /\ SatisfiedGuards(chartIn) = {4, 5}
  /\ Get(chartIn, "location") = Obj(Paris)
  /\ resolved = Location(Str(<<"O", "s", "l", "o">>), Str(<<"N", "o", "r", "w", "a", "y">>), Zero, Zero)

\* C7: a top-level location that is the placeholder 'Unknown' or 'Unknown
\* location' is not used (the result is the one of the record without it), no
\* result has 'Unknown location' as its city, and the string branch gives
\* lat = lon = 0.
C7_PlaceholderLocation ==
  Returned =>
    /\ Get(chartIn, "location") \in {Str(Unknown), Str(UnknownLocation)} =>
         resolved = getLocationData(DropSource(chartIn, "location"))
    /\ resolved.city # Str(UnknownLocation)
    /\ Winner(chartIn) = 6 => (resolved.lat = Zero /\ resolved.lon = Zero)

\* The object read by an object-shaped branch.
ObjectRead(chart) ==
  CASE Winner(chart) = 1 -> CdLocation(chart)
    [] Winner(chart) = 2 -> OptGet(TimezoneInfo(chart), "location")
    [] OTHER -> Get(chart, "location")

\* A present full-name field, else the abbreviated one, else the default.
Prefer(loc, full, short, default) ==
  IF HasField(loc, full) THEN loc.f[full]
  ELSE IF HasField(loc, short) THEN loc.f[short]
  ELSE default

\* C8: in the object-shaped branches (1, 2 and 5) lat is the object's
\* latitude whenever that field is present, 0 included, else its lat, else 0;
\* lon likewise; an abbreviated field never overrides a present full one.
C8_FieldReading ==
  (Returned /\ Winner(chartIn) \in {1, 2, 5}) =>
    /\ resolved.lat = Prefer(ObjectRead(chartIn), "latitude", "lat", Zero)
    /\ resolved.lon = Prefer(ObjectRead(chartIn), "longitude", "lon", Zero)

IsZone(tz) ==
  /\ tz.t = "string"
  /\ tz # Str(UTC)
  /\ \E k \in 1..Len(tz.s) : tz.s[k] = "/"

Slashes(z) == {k \in 1..Len(z) : z[k] = "/"}

FirstSlash(z) == CHOOSE k \in Slashes(z) : \A m \in Slashes(z) : k <= m

LastSlash(z) == CHOOSE k \in Slashes(z) : \A m \in Slashes(z) : k >= m

\* The text before the first "/".
ZoneRegion(z) == SubSeq(z, 1, FirstSlash(z) - 1)

\* The text after the last "/", every "_" shown as a space.
ZoneCity(z) ==
  LET last == SubSeq(z, LastSlash(z) + 1, Len(z))
  IN [k \in 1..Len(last) |-> IF last[k] = "_" THEN " " ELSE last[k]]

MaxChunks == 4

Chunks ==
  { Moon, <<" ">>, <<"\f">>, <<Crescent>>, Void, <<":">>, <<"(", "M", "o", "o", "n", ")">>, Makes, <<"a">> }

RECURSIVE Flatten(_)
Flatten(ss) == IF ss = <<>> THEN <<>> ELSE Head(ss) \o Flatten(Tail(ss))

CleanInputs ==
  {Undefined, Null, Num(7, 1)}
    \cup {Str(Flatten(cs)) : cs \in SeqsUpTo(Chunks, MaxChunks)}

InitClean ==
  /\ rationale \in CleanInputs
  /\ cleaned = NotCalled
  /\ prev = NotCalled
  /\ passes = 0
  /\ ParseIdle
  /\ LocIdle

\* One call cleanMoonText(text) of the exported function.
Clean ==
  /\ passes = 0
  /\ cleaned' = cleanMoonText(rationale)
  /\ passes' = 1
  /\ UNCHANGED <<reasoning, parsed, chartIn, resolved, payload, rationale, prev>>

\* cleanMoonText applied to its own output.
CleanAgain ==
  /\ passes = 1
  /\ prev' = cleaned
  /\ cleaned' = cleanMoonText(cleaned)
  /\ passes' = 2
  /\ UNCHANGED <<reasoning, parsed, chartIn, resolved, payload, rationale>>

NextClean == Clean \/ CleanAgain

SpecClean == InitClean /\ [][NextClean]_vars

(***************************************************************************)
(* Claim about cleanMoonText                                               *)
(***************************************************************************)
Contains(s, lit) == \E i \in 0..Len(s) : LitAt(s, i, lit, FALSE)

\* s ends, up to white space, with a parenthetical that contains "moon".
EndsWithMoonParen(s) ==
  \E p \in 1..Len(s) : \E q \in p..Len(s) :
    /\ s[p] = "("
    /\ s[q] = ")"
    /\ \A k \in p..(q - 1) : s[k] # ")"
    /\ \A k \in (q + 1)..Len(s) : IsSpace(s[k])
    /\ \E m \in p..(q - 4) : LitAt(s, m, Moon, TRUE)

Tidy(s) ==
  /\ s # <<>> => ~IsSpace(s[1]) /\ ~IsSpace(s[Len(s)])
  /\ \A k \in 1..(Len(s) - 1) : ~(IsSpace(s[k]) /\ IsSpace(s[k + 1]))

\* C10: one pass cleans fully: the output of cleanMoonText on a string holds
\* no "Moon Moon" and no crescent-plus-"Moon" repetition, does not end with a
\* parenthetical containing "moon", has no leading, trailing or doubled
\* white space, and a second pass changes nothing.
C10_OnePass ==
  (passes >= 1 /\ rationale.t = "string") =>
    /\ passes = 1 =>
         /\ ~Contains(cleaned.s, Moon \o <<" ">> \o Moon)
         /\ ~Contains(cleaned.s, <<Crescent, " ">> \o Moon)
         /\ ~EndsWithMoonParen(cleaned.s)
         /\ Tidy(cleaned.s)
    /\ passes = 2 => cleaned = prev

====
